---------------------------- MODULE Spec2Model ----------------------------
(***************************************************************************)
(* Model of the progressive-context tooling in src/scripts:                *)
(*   install_hooks.py          hook lifecycle manager (install/uninstall)  *)
(*   context_bootstrap.py      add a freshness marker to a document        *)
(*   context_audit.py          parse markers, compute hashes, audit        *)
(*                                                                         *)
(* Text is modelled as text: a file's content, a line, a glob and a path   *)
(* are TLA+ strings, and the Python string and regular-expression          *)
(* operations the code applies to them are operators that work character   *)
(* by character (TLC evaluates Len, SubSeq and \o on strings).             *)
(***************************************************************************)
EXTENDS Naturals, Sequences, FiniteSets, TLC

(***************************************************************************)
(* Python string operations                                                *)
(***************************************************************************)

\* s[i], one character (1-based)
Ch(s, i) == SubSeq(s, i, i)

\* s[i:] and s[:i-1]
From(s, i) == IF i > Len(s) THEN "" ELSE SubSeq(s, i, Len(s))

\* the characters str.strip() removes and the regex class \s matches
IsSpace(c) == c \in {" ", "\t", "\n", "\r", "\f"}

\* s.startswith(p, i-1)
StartsWithAt(s, p, i) ==
    /\ i >= 1
    /\ i + Len(p) - 1 <= Len(s)
    /\ SubSeq(s, i, i + Len(p) - 1) = p

\* s.startswith(p)
startswith(s, p) == StartsWithAt(s, p, 1)

\* s.endswith(p)
endswith(s, p) == Len(p) <= Len(s) /\ StartsWithAt(s, p, Len(s) - Len(p) + 1)

\* p in s
Contains(s, p) == \E i \in 1..(Len(s) + 1) : StartsWithAt(s, p, i) \/ p = ""

\* the first index >= i of s that holds no whitespace (Len(s)+1 if none)
SkipWs(s, i) ==
    CHOOSE j \in i..(Len(s) + 1) :
        /\ (j = Len(s) + 1 \/ ~IsSpace(Ch(s, j)))
        /\ \A k \in i..(j - 1) : IsSpace(Ch(s, k))

\* the first index >= i of s that holds whitespace (Len(s)+1 if none)
SkipNonWs(s, i) ==
    CHOOSE j \in i..(Len(s) + 1) :
        /\ (j = Len(s) + 1 \/ IsSpace(Ch(s, j)))
        /\ \A k \in i..(j - 1) : ~IsSpace(Ch(s, k))

\* the last index of s that holds no whitespace (0 if none)
LastNonWs(s) ==
    LET k == CHOOSE k \in 0..Len(s) :
                 /\ (k = Len(s) \/ ~IsSpace(Ch(s, Len(s) - k)))
                 /\ \A m \in (Len(s) - k + 1)..Len(s) : IsSpace(Ch(s, m))
    IN  Len(s) - k

\* s.strip()
strip(s) ==
    LET a == SkipWs(s, 1)
        b == LastNonWs(s)
    IN  IF a > b THEN "" ELSE SubSeq(s, a, b)

\* s.rstrip(c) for a single character c
rstrip_char(s, c) ==
    LET k == CHOOSE k \in 0..Len(s) :
                 /\ (k = Len(s) \/ Ch(s, Len(s) - k) # c)
                 /\ \A m \in (Len(s) - k + 1)..Len(s) : Ch(s, m) = c
    IN  IF k = Len(s) THEN "" ELSE SubSeq(s, 1, Len(s) - k)

\* the positions of the line breaks of s ("\n"; the inputs hold no other
\* line boundary character)
Breaks(s) == {i \in 1..Len(s) : Ch(s, i) = "\n"}

\* s.splitlines(): the text between line breaks, without them; no empty
\* last line when s ends with a line break
splitlines(s) ==
    LET B == Breaks(s)
        nth(k) == CHOOSE p \in B : Cardinality({q \in B : q <= p}) = k
        n == IF Len(s) = 0 THEN 0
             ELSE IF Ch(s, Len(s)) = "\n" THEN Cardinality(B)
             ELSE Cardinality(B) + 1
        lo(k) == IF k = 1 THEN 1 ELSE nth(k - 1) + 1
        hi(k) == IF k <= Cardinality(B) THEN nth(k) - 1 ELSE Len(s)
    IN  [k \in 1..n |-> IF lo(k) > hi(k) THEN "" ELSE SubSeq(s, lo(k), hi(k))]

\* sep.join(seq)
RECURSIVE join(_, _)
join(sep, seq) ==
    IF Len(seq) = 0 THEN ""
    ELSE IF Len(seq) = 1 THEN seq[1]
    ELSE seq[1] \o sep \o join(sep, Tail(seq))


(***************************************************************************)
(* install_hooks.py: the hook texts                                        *)
(***************************************************************************)

\* _POST_COMMIT_HOOK (the dash of its comment line is written "-")
_POST_COMMIT_HOOK ==
    "#!/bin/sh\n"
    \o "# Context freshness check - warns if committed files affect context\n"
    \o "SCRIPTS_DIR=\"$(git rev-parse --show-toplevel)/scripts\"\n"
    \o "if command -v python3 >/dev/null 2>&1 && [ -f \"$SCRIPTS_DIR/context_check_watches.py\" ]; then\n"
    \o "  git diff-tree --no-commit-id --name-only -r HEAD | xargs python3 \"$SCRIPTS_DIR/context_check_watches.py\" 2>/dev/null\n"
    \o "fi\n"

\* _POST_MERGE_HOOK
_POST_MERGE_HOOK ==
    "#!/bin/sh\n"
    \o "# Context freshness audit after merge/pull\n"
    \o "SCRIPTS_DIR=\"$(git rev-parse --show-toplevel)/scripts\"\n"
    \o "if command -v python3 >/dev/null 2>&1 && [ -f \"$SCRIPTS_DIR/context_audit.py\" ]; then\n"
    \o "  python3 \"$SCRIPTS_DIR/context_audit.py\" 2>/dev/null\n"
    \o "fi\n"

HookNames == {"post-commit", "post-merge"}

_INLINE_HOOKS == [n \in HookNames |->
    IF n = "post-commit" THEN _POST_COMMIT_HOOK ELSE _POST_MERGE_HOOK]

\* read_template(name): no template file is installed beside the script, so
\* the inline text is what it returns
read_template(name) == _INLINE_HOOKS[name]

CONTEXT_HOOK_MARKER == "progressive-context"
CONTEXT_HOOK_SIGNATURES == {"context_check_watches", "context_audit"}
SHELL_SCAFFOLDING == {"if", "fi", "then", "else", "elif", "done", "do"}

\* the directory of this tool's scripts, as install_precommit writes it
scripts_dir == "/opt/skill/scripts"

\* hook_entry of install_precommit
HOOK_ENTRY ==
    "\n"
    \o "# --- progressive-context hooks ---\n"
    \o "- repo: local\n"
    \o "  hooks:\n"
    \o "    - id: context-check-watches\n"
    \o "      name: Check context freshness\n"
    \o "      entry: python3 " \o scripts_dir \o "/context_check_watches.py\n"
    \o "      language: system\n"
    \o "      stages: [post-commit]\n"
    \o "      always_run: true\n"
    \o "    - id: context-audit\n"
    \o "      name: Context audit (post-merge)\n"
    \o "      entry: python3 " \o scripts_dir \o "/context_audit.py\n"
    \o "      language: system\n"
    \o "      stages: [post-merge]\n"
    \o "      always_run: true\n"

(***************************************************************************)
(* The repository's files, as the hook manager sees them                   *)
(***************************************************************************)

HUSKY == ".husky"
GITHOOKS == ".githooks"
PRECOMMIT_CONFIG == ".pre-commit-config.yaml"
HookDirs == {HUSKY, GITHOOKS}
HookPath(dir, name) == dir \o "/" \o name
HookPaths == {HookPath(d, n) : d \in HookDirs, n \in HookNames}
Paths == HookPaths \cup {PRECOMMIT_CONFIG}

\* a file: whether it exists, its text, and its executable bit
NoFile == [exists |-> FALSE, text |-> "", exec |-> FALSE]
File(text) == [exists |-> TRUE, text |-> text, exec |-> FALSE]

(***************************************************************************)
(* install_hooks.py: install                                               *)
(***************************************************************************)

\* the loop of write_hook that finds where the body of a template starts:
\* i is the 1-based line under inspection, body_start the 0-based index the
\* code keeps
RECURSIVE BodyStart(_, _, _)
BodyStart(lines, i, body_start) ==
    IF i > Len(lines) THEN body_start
    ELSE IF startswith(lines[i], "#!") THEN BodyStart(lines, i + 1, i)
    ELSE IF startswith(lines[i], "#") /\ i - 1 = body_start
         THEN BodyStart(lines, i + 1, i)
    ELSE body_start

\* what write_hook appends to a hook file that exists: the section marker
\* and the template without its shebang and leading comment
AppendedSection(content) ==
    LET lines == splitlines(content)
        body_start == BodyStart(lines, 1, 0)
    IN  "\n# --- progressive-context hooks ---\n"
        \o join("\n", SubSeq(lines, body_start + 1, Len(lines))) \o "\n"

\* a write_hook that looks for one of the two signatures only
HasSignature_OnlyCheckWatches(text) == Contains(text, "context_check_watches")

\* "context_check_watches" in existing or "context_audit" in existing
HasSignature(text) == \E sig \in CONTEXT_HOOK_SIGNATURES : Contains(text, sig)

\* write_hook(hook_path, content, hook_name) on the files f: the files after
\* the call
write_hook(f, dir, name, content) ==
    LET p == HookPath(dir, name)
        cur == f.file[p]
    IN  IF cur.exists
        THEN IF HasSignature(cur.text)
             THEN f
             ELSE [f EXCEPT !.file[p] =
                      [exists |-> TRUE,
                       text |-> cur.text \o AppendedSection(content),
                       exec |-> TRUE]]
        ELSE [f EXCEPT !.dir[dir] = TRUE,
                       !.file[p] = [exists |-> TRUE, text |-> content,
                                    exec |-> TRUE]]

\* write_hook's return value: whether it wrote
write_hook_wrote(f, dir, name) ==
    LET cur == f.file[HookPath(dir, name)]
    IN  ~(cur.exists /\ HasSignature(cur.text))

\* a detect_husky that looks for the .husky directory only
detect_husky_DirOnly(f) == f.dir[HUSKY]

\* detect_husky: the .husky directory exists and package.json, parsed,
\* has "husky" in scripts.prepare (prepare is that field's text, "" when
\* the field is missing; pkg tells an absent or unparsable package.json)
detect_husky(f) ==
    /\ f.dir[HUSKY]
    /\ f.pkg = "json"
    /\ Contains(f.prepare, "husky")

\* detect_precommit
detect_precommit(f) == f.file[PRECOMMIT_CONFIG].exists

\* install_husky
install_husky(f) ==
    write_hook(write_hook(f, HUSKY, "post-commit", read_template("post-commit")),
               HUSKY, "post-merge", read_template("post-merge"))

\* install_precommit
install_precommit(f) ==
    LET content == f.file[PRECOMMIT_CONFIG].text
    IN  IF Contains(content, "context_check_watches")
        THEN f
        ELSE [f EXCEPT !.file[PRECOMMIT_CONFIG].text = content \o HOOK_ENTRY]

\* the configuration step of install_plain_git on the files f: hooksPath
\* is what `git config core.hooksPath` prints, sets counts the runs of
\* `git config core.hooksPath .githooks` that succeeded, cfg is the message
\* of the step; cfgOk tells whether that command succeeds
ConfigureHooksPath(f, cfgOk) ==
    IF strip(f.hooksPath) # GITHOOKS
    THEN IF cfgOk
         THEN [f EXCEPT !.hooksPath = GITHOOKS, !.sets = @ + 1, !.cfg = "set"]
         ELSE [f EXCEPT !.cfg = "warning"]
    ELSE [f EXCEPT !.cfg = "already set"]

\* an install_plain_git that sets core.hooksPath without reading it
install_plain_git_AlwaysSet(f, cfgOk) ==
    LET f1 == [f EXCEPT !.dir[GITHOOKS] = TRUE]
        f2 == write_hook(f1, GITHOOKS, "post-commit", read_template("post-commit"))
        f3 == write_hook(f2, GITHOOKS, "post-merge", read_template("post-merge"))
    IN  IF cfgOk
        THEN [f3 EXCEPT !.hooksPath = GITHOOKS, !.sets = @ + 1, !.cfg = "set"]
        ELSE [f3 EXCEPT !.cfg = "warning"]

\* install_plain_git
install_plain_git(f, cfgOk) ==
    LET f1 == [f EXCEPT !.dir[GITHOOKS] = TRUE]
        f2 == write_hook(f1, GITHOOKS, "post-commit", read_template("post-commit"))
        f3 == write_hook(f2, GITHOOKS, "post-merge", read_template("post-merge"))
    IN  ConfigureHooksPath(f3, cfgOk)

(***************************************************************************)
(* install_hooks.py: uninstall                                             *)
(***************************************************************************)

\* _is_ours(line) of _remove_hook_file
_is_ours(line) ==
    LET s == strip(line)
    IN  \/ s = ""
        \/ startswith(s, "#")
        \/ startswith(line, "#!/")
        \/ \E sig \in CONTEXT_HOOK_SIGNATURES : Contains(line, sig)
        \/ Contains(line, CONTEXT_HOOK_MARKER)
        \/ Contains(line, "SCRIPTS_DIR=")
        \/ Contains(line, "command -v python3")
        \/ Contains(line, "xargs python3")
        \/ Contains(line, "git diff-tree")
        \/ rstrip_char(s, ";") \in SHELL_SCAFFOLDING

IsForeign(line) == ~_is_ours(line)

\* foreign_lines of _remove_hook_file
foreign_lines(content) == SelectSeq(splitlines(content), IsForeign)

\* a cleaning loop that, once in the marked section, drops every line to
\* the end of the file
RECURSIVE CleanLoop_SkipToEnd(_, _, _, _)
CleanLoop_SkipToEnd(lines, i, skip_block, cleaned) ==
    IF i > Len(lines) THEN cleaned
    ELSE LET line == lines[i]
         IN  IF Contains(line, CONTEXT_HOOK_MARKER) \/ skip_block
             THEN CleanLoop_SkipToEnd(lines, i + 1, TRUE, cleaned)
             ELSE IF _is_ours(line) /\ ~startswith(line, "#!/")
             THEN CleanLoop_SkipToEnd(lines, i + 1, FALSE, cleaned)
             ELSE CleanLoop_SkipToEnd(lines, i + 1, FALSE, Append(cleaned, line))

\* the cleaning loop of _remove_hook_file over lines[i..], with the loop's
\* skip_block flag and the cleaned lines so far
RECURSIVE CleanLoop(_, _, _, _)
CleanLoop(lines, i, skip_block, cleaned) ==
    IF i > Len(lines) THEN cleaned
    ELSE LET line == lines[i]
             sig == \E g \in CONTEXT_HOOK_SIGNATURES : Contains(line, g)
         IN  IF Contains(line, CONTEXT_HOOK_MARKER)
             THEN CleanLoop(lines, i + 1, TRUE, cleaned)
             ELSE IF skip_block /\ (sig \/ strip(line) = "")
             THEN CleanLoop(lines, i + 1, TRUE, cleaned)
             ELSE IF _is_ours(line) /\ ~startswith(line, "#!/")
             THEN CleanLoop(lines, i + 1, FALSE, cleaned)
             ELSE CleanLoop(lines, i + 1, FALSE, Append(cleaned, line))

\* the file _remove_hook_file leaves for a hook file cur
RemovedHookFile(cur) ==
    IF ~cur.exists THEN cur
    ELSE IF ~HasSignature(cur.text) THEN cur
    ELSE IF Len(foreign_lines(cur.text)) = 0 THEN NoFile
    ELSE [cur EXCEPT !.text =
             join("\n", CleanLoop(splitlines(cur.text), 1, FALSE, <<>>)) \o "\n"]

\* _remove_hook_file(hook_path, hook_name) on the files f
_remove_hook_file(f, dir, name) ==
    [f EXCEPT !.file[HookPath(dir, name)] = RemovedHookFile(@)]

\* uninstall_husky
uninstall_husky(f) ==
    _remove_hook_file(_remove_hook_file(f, HUSKY, "post-commit"),
                      HUSKY, "post-merge")

\* the loop of uninstall_precommit over lines[i..]
RECURSIVE ConfigLoop(_, _, _, _)
ConfigLoop(lines, i, skip, cleaned) ==
    IF i > Len(lines) THEN cleaned
    ELSE LET line == lines[i]
             stripped == strip(line)
         IN  IF Contains(line, CONTEXT_HOOK_MARKER)
             THEN ConfigLoop(lines, i + 1, TRUE, cleaned)
             ELSE IF skip
             THEN IF startswith(stripped, "- repo:") /\ ~Contains(stripped, "local")
                  THEN ConfigLoop(lines, i + 1, FALSE, Append(cleaned, line))
                  ELSE ConfigLoop(lines, i + 1, TRUE, cleaned)
             ELSE ConfigLoop(lines, i + 1, FALSE, Append(cleaned, line))

\* uninstall_precommit
uninstall_precommit(f) ==
    LET cfg == f.file[PRECOMMIT_CONFIG]
    IN  IF ~cfg.exists THEN f
        ELSE IF ~Contains(cfg.text, CONTEXT_HOOK_MARKER) THEN f
        ELSE [f EXCEPT !.file[PRECOMMIT_CONFIG].text =
                 join("\n", ConfigLoop(splitlines(cfg.text), 1, FALSE, <<>>))
                 \o "\n"]

\* uninstall_plain_git; unsetOk tells whether `git config --unset
\* core.hooksPath` takes effect (its result is not checked)
uninstall_plain_git(f, unsetOk) ==
    IF ~f.dir[GITHOOKS] THEN f
    ELSE LET f1 == _remove_hook_file(f, GITHOOKS, "post-commit")
             f2 == _remove_hook_file(f1, GITHOOKS, "post-merge")
             remaining == f2.other
                          \/ \E n \in HookNames : f2.file[HookPath(GITHOOKS, n)].exists
         IN  IF remaining THEN f2
             ELSE [f2 EXCEPT !.dir[GITHOOKS] = FALSE,
                             !.hooksPath = IF unsetOk THEN "" ELSE @]

\* main without --uninstall, once the repository root is found
main_install(f, cfgOk) ==
    IF detect_husky(f) THEN install_husky(f)
    ELSE IF detect_precommit(f) THEN install_precommit(f)
    ELSE install_plain_git(f, cfgOk)

\* main with --uninstall, once the repository root is found
main_uninstall(f, unsetOk) ==
    IF detect_husky(f) THEN uninstall_husky(f)
    ELSE IF detect_precommit(f) THEN uninstall_precommit(f)
    ELSE uninstall_plain_git(f, unsetOk)

(***************************************************************************)
(* The freshness marker: FRESHNESS_PATTERN and the parsers                 *)
(***************************************************************************)

\* smallest and largest element of a non-empty set of numbers
MinOf(S) == CHOOSE m \in S : \A n \in S : m <= n
MaxOf(S) == CHOOSE m \in S : \A n \in S : m >= n

\* where the tail "\n\s*-->" of FRESHNESS_PATTERN can match in s at or after
\* p: the positions j >= p of a line break that is followed by whitespace
\* and "-->"
CloserAt(s, p) ==
    {j \in p..Len(s) : Ch(s, j) = "\n" /\ StartsWithAt(s, "-->", SkipWs(s, j + 1))}

\* the line breaks that "\s*\n" can end on after "<!--\s*freshness" matched
\* from i: those of the whitespace run after the word, from which the rest
\* of the pattern matches
OpenerBreaks(s, i) ==
    LET a == SkipWs(s, i + 4)
        b == a + 9
        c == SkipWs(s, b)
    IN  IF StartsWithAt(s, "<!--", i) /\ StartsWithAt(s, "freshness", a)
        THEN {k \in b..(c - 1) : Ch(s, k) = "\n" /\ CloserAt(s, k + 1) # {}}
        ELSE {}

\* FRESHNESS_PATTERN.search(content), r"<!--\s*freshness\s*\n(.*?)\n\s*-->"
\* with DOTALL: the leftmost start; there "\s*" is greedy (the last line
\* break that lets the rest match) and "(.*?)" lazy (the first closer).
\* found, start (of the match), lo..hi (the block, group 1; hi = lo - 1 when
\* it is empty) and end (last character of the match)
FRESHNESS_PATTERN(content) ==
    LET starts == {i \in 1..Len(content) : OpenerBreaks(content, i) # {}}
    IN  IF starts = {}
        THEN [found |-> FALSE, start |-> 0, lo |-> 1, hi |-> 0, end |-> 0]
        ELSE LET i == MinOf(starts)
                 k == MaxOf(OpenerBreaks(content, i))
                 j == MinOf(CloserAt(content, k + 1))
             IN  [found |-> TRUE, start |-> i, lo |-> k + 1, hi |-> j - 1,
                  end |-> SkipWs(content, j + 1) + 2]

\* match.group(1): the block
Block(content, m) == IF m.lo > m.hi THEN "" ELSE SubSeq(content, m.lo, m.hi)

\* re.search(label + r"\s*(\S+)", block): found, and the token (group 1)
FieldSearch(block, label) ==
    LET at == {i \in 1..Len(block) :
                  /\ StartsWithAt(block, label, i)
                  /\ SkipWs(block, i + Len(label)) <= Len(block)}
    IN  IF at = {} THEN [found |-> FALSE, value |-> ""]
        ELSE LET a == SkipWs(block, MinOf(at) + Len(label))
             IN  [found |-> TRUE,
                  value |-> SubSeq(block, a, SkipNonWs(block, a) - 1)]

\* a loop over the lines of a block that keeps the first list item only
RECURSIVE WatchesLoop_FirstOnly(_, _, _, _)
WatchesLoop_FirstOnly(lines, i, in_watches, watches) ==
    IF i > Len(lines) \/ Len(watches) = 1 THEN watches
    ELSE LET stripped == strip(lines[i])
         IN  IF startswith(stripped, "watches:")
             THEN WatchesLoop_FirstOnly(lines, i + 1, TRUE, watches)
             ELSE IF in_watches /\ startswith(stripped, "- ")
             THEN WatchesLoop_FirstOnly(lines, i + 1, TRUE,
                                        Append(watches, strip(From(stripped, 3))))
             ELSE WatchesLoop_FirstOnly(lines, i + 1, in_watches, watches)

\* the loop of parse_freshness_marker (context_audit.py) over the lines of
\* the block: a line that is no list item ends the list but not the loop
RECURSIVE WatchesLoop(_, _, _, _)
WatchesLoop(lines, i, in_watches, watches) ==
    IF i > Len(lines) THEN watches
    ELSE LET stripped == strip(lines[i])
         IN  IF startswith(stripped, "watches:")
             THEN WatchesLoop(lines, i + 1, TRUE, watches)
             ELSE IF in_watches /\ startswith(stripped, "- ")
             THEN WatchesLoop(lines, i + 1, TRUE,
                              Append(watches, strip(From(stripped, 3))))
             ELSE IF in_watches /\ stripped # "" /\ ~startswith(stripped, "-")
             THEN WatchesLoop(lines, i + 1, FALSE, watches)
             ELSE WatchesLoop(lines, i + 1, in_watches, watches)

\* no marker: what parse_freshness_marker returns as None
NoMarker ==
    [marker |-> FALSE, watches_hash |-> "", has_last_verified |-> FALSE,
     last_verified |-> "", watches |-> <<>>]

\* parse_freshness_marker(content) of context_audit.py: the dict, or None
\* when there is no block or the block gives no watches_hash
parse_freshness_marker(content) ==
    LET m == FRESHNESS_PATTERN(content)
        block == Block(content, m)
        hash_match == FieldSearch(block, "watches_hash:")
        date_match == FieldSearch(block, "last_verified:")
    IN  IF ~m.found THEN NoMarker
        ELSE IF ~hash_match.found THEN NoMarker
        ELSE [marker |-> TRUE,
              watches_hash |-> hash_match.value,
              has_last_verified |-> date_match.found,
              last_verified |-> date_match.value,
              watches |-> WatchesLoop(splitlines(block), 1, FALSE, <<>>)]

(***************************************************************************)
(* context_bootstrap.py: the marker text                                   *)
(***************************************************************************)

\* a has_freshness_marker that looks for a marker in the last line only
has_freshness_marker_LastLine(content) ==
    LET lines == splitlines(content)
    IN  Len(lines) > 0 /\ Contains(lines[Len(lines)], "freshness")

\* has_freshness_marker(content)
has_freshness_marker(content) == FRESHNESS_PATTERN(content).found

\* the lines "  - g" of build_marker
RECURSIVE WatchLines(_)
WatchLines(watch_globs) ==
    IF Len(watch_globs) = 0 THEN <<>>
    ELSE <<"  - " \o watch_globs[1]>> \o WatchLines(Tail(watch_globs))

\* build_marker(watches_hash, watch_globs) on the day date.today() gives
build_marker(watches_hash, watch_globs, today_) ==
    "\n<!-- freshness\n"
    \o "watches_hash: " \o watches_hash \o "\n"
    \o "last_verified: " \o today_ \o "\n"
    \o "watches:\n"
    \o join("\n", WatchLines(watch_globs)) \o "\n"
    \o "-->\n"

(***************************************************************************)
(* The hash engine: fnmatch, git ls-files, git hash-object, compute_hash   *)
(***************************************************************************)

\* fnmatch(name, pat) from position i of name and j of pat: "*" matches any
\* run of characters, "?" one character, anything else itself (the patterns
\* of this model hold no "[")
RECURSIVE FnmatchFrom(_, _, _, _)
FnmatchFrom(name, pat, i, j) ==
    IF j > Len(pat) THEN i > Len(name)
    ELSE IF Ch(pat, j) = "*"
         THEN \/ FnmatchFrom(name, pat, i, j + 1)
              \/ (i <= Len(name) /\ FnmatchFrom(name, pat, i + 1, j))
    ELSE IF i > Len(name) THEN FALSE
    ELSE IF Ch(pat, j) = "?" THEN FnmatchFrom(name, pat, i + 1, j + 1)
    ELSE Ch(pat, j) = Ch(name, i) /\ FnmatchFrom(name, pat, i + 1, j + 1)

fnmatch(name, pat) == FnmatchFrom(name, pat, 1, 1)

\* the printable characters in code-point order (without the backquote)
CharOrder ==
    " !\"#$%&'()*+,-./0123456789:;<=>?@ABCDEFGHIJKLMNOPQRSTUVWXYZ[\\]^_abcdefghijklmnopqrstuvwxyz{|}~"

\* the rank of a character in that order; a line break sorts before them all
Chars == [k \in 1..Len(CharOrder) |-> Ch(CharOrder, k)]
Ord(c) ==
    IF c = "\n" THEN 0
    ELSE CHOOSE k \in 1..Len(CharOrder) : Chars[k] = c

\* a < b as Python compares strings
StrLess(a, b) ==
    \E i \in 1..(Len(a) + 1) :
        /\ i <= Len(b)
        /\ SubSeq(a, 1, i - 1) = SubSeq(b, 1, i - 1)
        /\ (i = Len(a) + 1 \/ Ord(Ch(a, i)) < Ord(Ch(b, i)))

\* sorted(S) for a set of strings
RECURSIVE sorted(_)
sorted(S) ==
    IF S = {} THEN <<>>
    ELSE LET m == CHOOSE x \in S : \A y \in S \ {x} : StrLess(x, y)
         IN  <<m>> \o sorted(S \ {m})

\* the elements of a sequence
Range(seq) == {seq[k] : k \in 1..Len(seq)}

\* stdout of `git ls-files`: the tracked paths, one per line
git_ls_files(tracked_) ==
    IF tracked_ = {} THEN "" ELSE join("\n", sorted(tracked_)) \o "\n"

\* the sum over lo..hi of a weight of each character of s at its position:
\* what stands for the digest of s
RECURSIVE WeightedSum(_, _, _)
WeightedSum(s, lo, hi) ==
    IF lo > hi THEN 0
    ELSE IF lo = hi THEN (Ord(Ch(s, lo)) + 1) * (1 + ((lo * 7919) % 1009))
    ELSE LET mid == (lo + hi) \div 2
         IN  WeightedSum(s, lo, mid) + WeightedSum(s, mid + 1, hi)

HexDigits == "0123456789abcdef"

\* n in hexadecimal, 7 digits
Hex7(n) ==
    LET d(k) == Ch(HexDigits, ((n \div (16 ^ k)) % 16) + 1)
    IN  d(6) \o d(5) \o d(4) \o d(3) \o d(2) \o d(1) \o d(0)

\* stdout of `git hash-object --stdin` fed blob: a hexadecimal digest that
\* is a function of the bytes of blob and of nothing else, and a line break.
\* (The digest is a stand-in for SHA-1: a position-weighted sum of the
\* characters, never zero.)
git_hash_object(blob) ==
    Hex7(WeightedSum(blob, 1, Len(blob)) % (16 ^ 7))
    \o Ch(HexDigits, (Len(blob) % 16) + 1) \o "\n"

\* all_files = result.stdout.strip().splitlines()
all_files(tracked_) == splitlines(strip(git_ls_files(tracked_)))

\* a loop that collects the matches pattern by pattern, in the order of the
\* patterns, and keeps duplicates
RECURSIVE MatchedInPatternOrder(_, _)
MatchedInPatternOrder(files, watch_globs) ==
    IF Len(watch_globs) = 0 THEN <<>>
    ELSE LET Hit(f) == fnmatch(f, watch_globs[1])
         IN  SelectSeq(files, Hit) \o MatchedInPatternOrder(files, Tail(watch_globs))

\* the matched set of compute_hash: the tracked files that match some glob
matched(files, watch_globs) ==
    {f \in Range(files) :
        \E k \in 1..Len(watch_globs) : fnmatch(f, watch_globs[k])}

\* sorted_files of a compute_hash that hashes the matches as collected
sorted_files_Unsorted(files, watch_globs) ==
    join("\n", MatchedInPatternOrder(files, watch_globs)) \o "\n"

\* sorted_files = "\n".join(sorted(matched)) + "\n"
sorted_files(files, watch_globs) ==
    join("\n", sorted(matched(files, watch_globs))) \o "\n"

\* result.stdout.strip()[:7]
First7(stdout) ==
    LET t == strip(stdout)
    IN  IF Len(t) <= 7 THEN t ELSE SubSeq(t, 1, 7)

\* compute_hash of context_audit.py; lsOk and hashOk tell whether `git
\* ls-files` and `git hash-object` exit with status 0
audit_compute_hash(tracked_, watch_globs, lsOk, hashOk) ==
    IF ~lsOk THEN "ERROR"
    ELSE LET files == all_files(tracked_)
         IN  IF matched(files, watch_globs) = {} THEN "0000000"
             ELSE IF ~hashOk THEN "ERROR"
             ELSE First7(git_hash_object(sorted_files(files, watch_globs)))

\* compute_hash of context_bootstrap.py
bootstrap_compute_hash(tracked_, watch_globs, lsOk, hashOk) ==
    IF ~lsOk THEN "0000000"
    ELSE LET files == all_files(tracked_)
         IN  IF matched(files, watch_globs) = {} THEN "0000000"
             ELSE IF ~hashOk THEN "0000000"
             ELSE First7(git_hash_object(sorted_files(files, watch_globs)))

\* what compute_hash of context_update_hash.py does when a git command
\* fails: it prints an error and calls sys.exit(1)
EXIT1 == "<sys.exit(1)>"

\* compute_hash of context_update_hash.py
update_compute_hash(tracked_, watch_globs, lsOk, hashOk) ==
    IF ~lsOk THEN EXIT1
    ELSE LET files == all_files(tracked_)
         IN  IF matched(files, watch_globs) = {} THEN "0000000"
             ELSE IF ~hashOk THEN EXIT1
             ELSE First7(git_hash_object(sorted_files(files, watch_globs)))

(***************************************************************************)
(* State                                                                   *)
(***************************************************************************)

VARIABLES
    fs,      \* the repository as the hook manager sees it: file (each path's
             \* file), dir (which hook directories exist), other (whether
             \* .githooks holds entries besides the two hooks), hooksPath
             \* (git config core.hooksPath, "" when unset), pkg and prepare
             \* (package.json)
    hist,    \* the last operations (at most two) on the repository, oldest
             \* first, each with the repository it started from
    edits,   \* how many lines the user has added to hook files
    nops,    \* how many operations have run
    io,      \* the run of install_hooks.py in progress, when its file
             \* operations are followed one by one: the file operations
             \* still to do, whether the first of them has its file open,
             \* and the text written to the open file and not yet flushed
    tracked, \* the paths git tracks
    rev,     \* how many times the content of a tracked file has changed
    hcall,   \* the last call of compute_hash, as long as the tracked files
             \* it matched are those its patterns match: its arguments, the
             \* tracked files and rev it ran at, how the git commands ended,
             \* and what the compute_hash of each tool returned
    docs,    \* the context documents: for each name whether it is absent,
             \* fails to open, fails to decode, or is a text
    dlog,    \* the last runs (at most two) of a tool on the documents, oldest
             \* first, each with the documents it started from
    dops,    \* how many runs of a tool on the documents there have been
    report,  \* what the last run of a tool printed and how it exited
    rec,     \* a marker record: watches_hash, last_verified, watches
    marker,  \* the text build_marker made of rec, "" before it has
    parsed   \* what parse_freshness_marker made of a document around marker

hookVars == <<fs, hist, edits, nops, io>>
hashVars == <<tracked, rev, hcall>>
docVars == <<docs, dlog, dops, report>>
codecVars == <<rec, marker, parsed>>
vars == <<fs, hist, edits, nops, io, tracked, rev, hcall, docs, dlog, dops, report,
          rec, marker, parsed>>

(***************************************************************************)
(* The parts of the state a tool does not touch, as they are when the tool *)
(* under study is another one                                              *)
(***************************************************************************)

\* the context documents this model follows (CONTEXT_GLOBS finds all three)
DocNames == {"AGENTS.md", "CLAUDE.md", "docs/context/api.md"}

Absent == [kind |-> "absent", text |-> ""]
Doc(text) == [kind |-> "text", text |-> text]

\* no compute_hash call yet
NoCall ==
    [called |-> FALSE, globs |-> <<>>, at |-> [tracked |-> {}, rev |-> 0],
     lsOk |-> TRUE, hashOk |-> TRUE,
     audit |-> "", bootstrap |-> "", update |-> ""]

\* no tool has run yet
NoReport == [tool |-> "none"]
NoRun == [run |-> "none"]

\* no record has been parsed yet
NotParsed == [done |-> FALSE]
NoRecord == [watches_hash |-> "", last_verified |-> "", watches |-> <<>>]

HashIdle == tracked = {} /\ rev = 0 /\ hcall = NoCall
DocsIdle ==
    /\ docs = [d \in DocNames |-> Absent]
    /\ dlog = <<>>
    /\ dops = 0
    /\ report = NoReport
CodecIdle == rec = NoRecord /\ marker = "" /\ parsed = NotParsed

(***************************************************************************)
(* Bounds and the user's hook files                                        *)
(***************************************************************************)

\* lines of a hook file the user wrote, at most
MaxUserLines == 2
\* lines the user adds after an install, at most
MaxEdits == 1
\* runs of install_hooks.py in one behaviour, at most
MaxOps == 2

\* the lines a user's own hook file is made of
UserLines == {"#!/bin/sh", "npm test", "# lint first", "", "fi"}

\* the line a user adds to a hook file later
EditLine == "npm run lint"

\* the texts of a user's hook file: the empty file, up to MaxUserLines
\* lines each ended by a line break, and a file whose last line is not
UserTexts ==
    {"", "npm test"}
    \cup {join("\n", ls) \o "\n" :
            ls \in UNION {[1..k -> UserLines] : k \in 1..MaxUserLines}}

\* a user's post-commit file and post-merge file before any install
UserFiles == {NoFile} \cup {File(t) : t \in UserTexts}
SomeUserFiles == {NoFile, File(""), File("#!/bin/sh\nnpm test\n")}

\* a user's .pre-commit-config.yaml
UserConfigs ==
    {File("repos:\n"),
     File("repos:\n- repo: https://github.com/psf/black\n  rev: 24.1.0\n  hooks:\n    - id: black\n"),
     File("repos:\n- repo: local\n  hooks:\n    - id: mine\n      entry: make lint\n      language: system")}

EmptyRepo ==
    [file |-> [p \in Paths |-> NoFile],
     dir |-> [d \in HookDirs |-> FALSE],
     other |-> FALSE,
     hooksPath |-> "",
     sets |-> 0,
     cfg |-> "none",
     pkg |-> "absent",
     prepare |-> ""]

\* repositories that use Husky
HuskyRepos ==
    {[EmptyRepo EXCEPT !.dir[HUSKY] = TRUE, !.pkg = "json", !.prepare = "husky",
                       !.file[HookPath(HUSKY, "post-commit")] = c,
                       !.file[HookPath(HUSKY, "post-merge")] = m] :
        c \in UserFiles, m \in {NoFile}}
    \cup
    {[EmptyRepo EXCEPT !.dir[HUSKY] = TRUE, !.pkg = "json",
                       !.prepare = "husky install",
                       !.file[HookPath(HUSKY, "post-commit")] = c,
                       !.file[HookPath(HUSKY, "post-merge")] = m] :
        c \in SomeUserFiles, m \in SomeUserFiles}
    \cup
    {[EmptyRepo EXCEPT !.dir[HUSKY] = TRUE, !.pkg = "json", !.prepare = "husky",
                       !.file[PRECOMMIT_CONFIG] = c, !.dir[GITHOOKS] = g] :
        c \in UserConfigs, g \in BOOLEAN}

\* repositories that use the pre-commit framework
PrecommitRepos ==
    {[EmptyRepo EXCEPT !.file[PRECOMMIT_CONFIG] = c, !.dir[HUSKY] = h] :
        c \in UserConfigs, h \in BOOLEAN}

\* repositories with neither: no .githooks directory yet, or one with the
\* user's hooks in it
PlainRepos ==
    {[EmptyRepo EXCEPT !.hooksPath = hp, !.pkg = pk] :
        hp \in {"", GITHOOKS}, pk \in {"absent", "invalid"}}
    \cup
    {[EmptyRepo EXCEPT !.dir[GITHOOKS] = TRUE, !.other = o, !.hooksPath = hp,
                       !.file[HookPath(GITHOOKS, "post-commit")] = c,
                       !.file[HookPath(GITHOOKS, "post-merge")] = m] :
        o \in BOOLEAN, hp \in {"", GITHOOKS},
        c \in SomeUserFiles, m \in SomeUserFiles}

(***************************************************************************)
(* Actions of the hook manager                                             *)
(***************************************************************************)

\* the history after operation op from the repository f
Logged(op, f) ==
    LET e == [op |-> op, before |-> f]
    IN  IF Len(hist) < 2 THEN Append(hist, e) ELSE <<hist[2], e>>

InitHooks ==
    /\ fs \in HuskyRepos \cup PrecommitRepos \cup PlainRepos
    /\ hist = <<>>
    /\ edits = 0
    /\ nops = 0
    /\ io = NoRun
    /\ HashIdle /\ DocsIdle /\ CodecIdle

\* python3 install_hooks.py
Install ==
    \E cfgOk \in BOOLEAN :
        /\ nops < MaxOps
        /\ fs' = main_install(fs, cfgOk)
        /\ hist' = Logged("install", fs)
        /\ nops' = nops + 1
        /\ UNCHANGED <<edits, io, hashVars, docVars, codecVars>>

\* python3 install_hooks.py --uninstall
Uninstall ==
    \E unsetOk \in BOOLEAN :
        /\ nops < MaxOps
        /\ fs' = main_uninstall(fs, unsetOk)
        /\ hist' = Logged("uninstall", fs)
        /\ nops' = nops + 1
        /\ UNCHANGED <<edits, io, hashVars, docVars, codecVars>>

\* the user adds a line at the end of a post-commit hook that holds this
\* system's section
UserEdit ==
    \E d \in HookDirs :
        LET p == HookPath(d, "post-commit")
        IN  /\ edits < MaxEdits
            /\ fs.file[p].exists
            /\ HasSignature(fs.file[p].text)
            /\ fs' = [fs EXCEPT !.file[p].text = @ \o EditLine \o "\n"]
            /\ hist' = Logged("edit", fs)
            /\ edits' = edits + 1
            /\ UNCHANGED <<nops, io, hashVars, docVars, codecVars>>

NextHooks == Install \/ Uninstall \/ UserEdit

SpecHooks == InitHooks /\ [][NextHooks]_vars

(***************************************************************************)
(* Properties of the hook manager                                          *)
(***************************************************************************)

\* the last operation and the one before it
LastOp == IF Len(hist) = 0 THEN "none" ELSE hist[Len(hist)].op
LastBefore == hist[Len(hist)].before
InstallThenUninstall ==
    Len(hist) = 2 /\ hist[1].op = "install" /\ hist[2].op = "uninstall"
InstallTwice ==
    Len(hist) = 2 /\ hist[1].op = "install" /\ hist[2].op = "install"

\* the hook directory main works on in the repository f ("" for the
\* pre-commit framework, which has no hook files, and for a plain
\* repository without .githooks)
ActiveDir(f) ==
    IF detect_husky(f) THEN HUSKY
    ELSE IF detect_precommit(f) THEN ""
    ELSE IF f.dir[GITHOOKS] THEN GITHOOKS
    ELSE ""

\* the hook files of f that an uninstall cleans or deletes
CleanedPaths(f) ==
    {p \in HookPaths :
        /\ \E n \in HookNames : p = HookPath(ActiveDir(f), n)
        /\ f.file[p].exists
        /\ HasSignature(f.file[p].text)}

\* a is a subsequence of b
RECURSIVE IsSubseq(_, _)
IsSubseq(a, b) ==
    IF Len(a) = 0 THEN TRUE
    ELSE IF Len(b) = 0 THEN FALSE
    ELSE IF a[1] = b[1] THEN IsSubseq(Tail(a), Tail(b))
    ELSE IsSubseq(a, Tail(b))

IsShebang(line) == startswith(line, "#!/")

AppendedPaths(f) ==
    {p \in HookPaths :
        /\ \E n \in HookNames : p = HookPath(ActiveDir(f), n)
        /\ f.file[p].exists
        /\ ~HasSignature(f.file[p].text)}

\* C2: install followed by uninstall leaves every hook file of the user
\* that held a command of the user's (a foreign line), with every line of
\* it (comments, blank lines and shell keywords too) in the original order
C2_UserLinesRestored ==
    InstallThenUninstall =>
        \A p \in AppendedPaths(hist[1].before) :
            foreign_lines(hist[1].before.file[p].text) # <<>> =>
                /\ fs.file[p].exists
                /\ IsSubseq(splitlines(hist[1].before.file[p].text),
                            splitlines(fs.file[p].text))

\* the hook files install_husky and install_plain_git write in f
TargetPaths(f) ==
    IF detect_husky(f) THEN {HookPath(HUSKY, n) : n \in HookNames}
    ELSE IF detect_precommit(f) THEN {}
    ELSE {HookPath(GITHOOKS, n) : n \in HookNames}

\* C3: install followed by uninstall leaves a hook file that was absent
\* absent, and one that was empty existing and empty
C3_EmptyOrAbsentRestored ==
    InstallThenUninstall =>
        \A p \in TargetPaths(hist[1].before) :
            LET old == hist[1].before.file[p]
            IN  /\ ~old.exists => ~fs.file[p].exists
                /\ (old.exists /\ old.text = "") =>
                       (fs.file[p].exists /\ fs.file[p].text = "")

\* every target of an install in f holds this system's signatures already
SkipsEveryTarget(f) ==
    /\ \A p \in TargetPaths(f) : f.file[p].exists /\ HasSignature(f.file[p].text)
    /\ (~detect_husky(f) /\ detect_precommit(f)) =>
           Contains(f.file[PRECOMMIT_CONFIG].text, "context_check_watches")

\* C4: a second install in a row finds every target installed and leaves
\* every file, hook or config, as the first install left it
C4_InstallIdempotent ==
    InstallTwice =>
        /\ SkipsEveryTarget(hist[2].before)
        /\ fs.file = hist[2].before.file
        /\ fs.dir = hist[2].before.dir

\* C4 witness: two installs in a row, the first of which appended to a
\* hook file of the user and created the other
C4_Witness ==
    /\ InstallTwice
    /\ \E p, r \in TargetPaths(hist[1].before) :
           /\ p \in AppendedPaths(hist[1].before)
           /\ ~hist[1].before.file[r].exists
           /\ fs.file[r].exists

\* the hook files under the directory dir, and whether it exists
HooksUnder(f, dir) ==
    [n \in HookNames \cup {"<dir>"} |->
        IF n = "<dir>" THEN [exists |-> f.dir[dir], text |-> "", exec |-> FALSE]
        ELSE f.file[HookPath(dir, n)]]

\* C15: install and uninstall work on Husky when the .husky directory
\* exists and package.json's prepare script names husky, otherwise on
\* .pre-commit-config.yaml when that file exists, otherwise on .githooks;
\* the run's effect is that one mechanism's routine and nothing else: the
\* files, directories and the setting of the other two are as they were
C15_MechanismByPriority ==
    LastOp \in {"install", "uninstall"} =>
        LET b == LastBefore
            husky == b.dir[HUSKY] /\ b.pkg = "json" /\ Contains(b.prepare, "husky")
            precommit == ~husky /\ b.file[PRECOMMIT_CONFIG].exists
            plain == ~husky /\ ~precommit
        IN  /\ husky =>
                  fs = IF LastOp = "install" THEN install_husky(b)
                       ELSE uninstall_husky(b)
            /\ precommit =>
                  fs = IF LastOp = "install" THEN install_precommit(b)
                       ELSE uninstall_precommit(b)
            /\ plain =>
                  \E ok \in BOOLEAN :
                      fs = IF LastOp = "install" THEN install_plain_git(b, ok)
                           ELSE uninstall_plain_git(b, ok)
            /\ ~husky => HooksUnder(fs, HUSKY) = HooksUnder(b, HUSKY)
            /\ ~precommit => fs.file[PRECOMMIT_CONFIG] = b.file[PRECOMMIT_CONFIG]
            /\ ~plain => /\ HooksUnder(fs, GITHOOKS) = HooksUnder(b, GITHOOKS)
                         /\ fs.hooksPath = b.hooksPath
            /\ fs.pkg = b.pkg /\ fs.prepare = b.prepare

\* C15 witness: an install has written the Husky hooks in a repository
\* that also has a .pre-commit-config.yaml and a .githooks directory, or
\* an install has written the config in a repository with a .husky
\* directory that package.json does not name
C15_Witness ==
    /\ LastOp = "install"
    /\ fs # LastBefore
    /\ LastBefore.dir[HUSKY]
    /\ LastBefore.file[PRECOMMIT_CONFIG].exists
    /\ \/ LastBefore.dir[GITHOOKS] /\ detect_husky(LastBefore)
       \/ LastBefore.pkg # "json"

\* the repository f has no Husky, no .pre-commit-config.yaml and no
\* .githooks directory
NoMechanism(f) ==
    ~detect_husky(f) /\ ~detect_precommit(f) /\ ~f.dir[GITHOOKS]

\* the install that led to fs from the repository b created .githooks
\* with both hook files and ran the write of core.hooksPath
CreatedAndSet(b) ==
    /\ fs.dir[GITHOOKS]
    /\ \A n \in HookNames :
           fs.file[HookPath(GITHOOKS, n)] =
               [exists |-> TRUE, text |-> read_template(n), exec |-> TRUE]
    /\ fs.cfg \in {"set", "warning"}
    /\ fs.cfg = "set" => (fs.hooksPath = GITHOOKS /\ fs.sets = b.sets + 1)

\* the install that led to fs from the repository b wrote neither the
\* setting nor a hook file, and reported that the setting is already set
WroteNothing(b) ==
    /\ fs.cfg = "already set"
    /\ fs.sets = b.sets
    /\ fs.hooksPath = b.hooksPath
    /\ fs.file = b.file

\* C16 as stated: in a repository with no hook framework and no .githooks
\* directory the first install creates .githooks with both hook files and
\* writes core.hooksPath; every later install writes nothing and reports
\* "already set"
C16_AsStated ==
    /\ (LastOp = "install" /\ NoMechanism(LastBefore)) =>
           CreatedAndSet(LastBefore)
    /\ (InstallTwice /\ NoMechanism(hist[1].before)) =>
           WroteNothing(hist[2].before)

\* C16: in a repository with no hook framework and no .githooks
\* directory in which core.hooksPath does not read .githooks yet, the
\* first install creates .githooks with both hook files and runs the write
\* of core.hooksPath; once the setting reads .githooks a later install
\* writes neither the setting nor a hook file and reports "already set"
C16_HooksPathSetOnce ==
    /\ (/\ LastOp = "install"
        /\ NoMechanism(LastBefore)
        /\ strip(LastBefore.hooksPath) # GITHOOKS) =>
           CreatedAndSet(LastBefore)
    /\ (/\ InstallTwice
        /\ NoMechanism(hist[1].before)
        /\ hist[2].before.hooksPath = GITHOOKS) =>
           WroteNothing(hist[2].before)

\* C16 witness: two installs in a row into a repository with no hook
\* framework; the first set core.hooksPath, the second found it set
C16_Witness ==
    /\ InstallTwice
    /\ NoMechanism(hist[1].before)
    /\ hist[1].before.hooksPath = ""
    /\ hist[2].before.sets = hist[1].before.sets + 1
    /\ fs.cfg = "already set"
    /\ fs.sets = 1

\* no hook file and no config of the repository f holds one of this
\* system's signatures or its marker
NothingInstalled(f) ==
    \A p \in Paths :
        /\ ~HasSignature(f.file[p].text)
        /\ ~Contains(f.file[p].text, CONTEXT_HOOK_MARKER)

\* C20: an uninstall in a repository where no hook file and no config
\* holds this system's signatures or marker deletes no file and no
\* directory, rewrites no file and leaves core.hooksPath as it was
C20_UninstallWithoutInstall ==
    (LastOp = "uninstall" /\ NothingInstalled(LastBefore)) =>
        /\ fs.file = LastBefore.file
        /\ fs.dir = LastBefore.dir
        /\ fs.hooksPath = LastBefore.hooksPath

(***************************************************************************)
(* The pre-commit configuration with entries added after an install        *)
(***************************************************************************)

\* entries the user appends to .pre-commit-config.yaml, at most
MaxAppends == 2

\* entries a user adds to the repos list: a remote repository, local
\* hooks of the user's own, and a remote repository with "local" in its
\* address
UserEntries ==
    {"- repo: https://github.com/psf/black\n  rev: 24.1.0\n  hooks:\n    - id: black\n",
     "- repo: local\n  hooks:\n    - id: mine\n      entry: make lint\n      language: system\n",
     "- repo: https://github.com/localstack/hooks\n  rev: v1\n  hooks:\n    - id: stack\n"}

InitConfig ==
    /\ fs \in PrecommitRepos
    /\ hist = <<>>
    /\ edits = 0
    /\ nops = 0
    /\ io = NoRun
    /\ HashIdle /\ DocsIdle /\ CodecIdle

\* the user appends an entry to the repos list of .pre-commit-config.yaml
AppendEntry ==
    \E entry \in UserEntries :
        LET text == fs.file[PRECOMMIT_CONFIG].text
            sep == IF text = "" \/ endswith(text, "\n") THEN "" ELSE "\n"
        IN  /\ edits < MaxAppends
            /\ fs.file[PRECOMMIT_CONFIG].exists
            /\ fs' = [fs EXCEPT !.file[PRECOMMIT_CONFIG].text = text \o sep \o entry]
            /\ hist' = Logged("edit", fs)
            /\ edits' = edits + 1
            /\ UNCHANGED <<nops, io, hashVars, docVars, codecVars>>

NextConfig == Install \/ Uninstall \/ AppendEntry

SpecConfig == InitConfig /\ [][NextConfig]_vars

\* the line opens an entry of the repos list
IsRepoEntry(line) == startswith(strip(line), "- repo:")

\* the line opens an entry of the repos list that is not a block of local
\* hooks
IsForeignRepoEntry(line) ==
    /\ IsRepoEntry(line)
    /\ strip(From(strip(line), Len("- repo:") + 1)) # "local"

\* the index of the first line at or after i that satisfies the test, or
\* Len(lines) + 1
FirstMarkerLine(lines) ==
    MinOf({k \in 1..Len(lines) : Contains(lines[k], CONTEXT_HOOK_MARKER)}
          \cup {Len(lines) + 1})
NextForeignEntry(lines, i) ==
    MinOf({k \in (i + 1)..Len(lines) : IsForeignRepoEntry(lines[k])}
          \cup {Len(lines) + 1})

\* C17: an uninstall on a .pre-commit-config.yaml that holds the marker
\* removes the lines from the marker up to the next entry of the repos
\* list that is not a block of local hooks, keeps the lines before the
\* marker and from that entry on in order, and drops no entry of the
\* user's (every entry but the one the marker introduces is kept)
C17_OnlyOwnedBlockRemoved ==
    (/\ LastOp = "uninstall"
     /\ ~detect_husky(LastBefore)
     /\ LastBefore.file[PRECOMMIT_CONFIG].exists
     /\ Contains(LastBefore.file[PRECOMMIT_CONFIG].text, CONTEXT_HOOK_MARKER)) =>
        LET old == splitlines(LastBefore.file[PRECOMMIT_CONFIG].text)
            new == splitlines(fs.file[PRECOMMIT_CONFIG].text)
            i == FirstMarkerLine(old)
            j == NextForeignEntry(old, i)
        IN  /\ new = SubSeq(old, 1, i - 1) \o SubSeq(old, j, Len(old))
            /\ \A k \in 1..Len(old) :
                   (IsRepoEntry(old[k]) /\ k # i + 1) =>
                       \E n \in 1..Len(new) : new[n] = old[k]

(***************************************************************************)
(* A run of install_hooks.py, one file operation at a time                 *)
(***************************************************************************)

\* a file operation: open(path, "a") or open(path, "w") (write_text)
\* followed by the texts of the write calls, or unlink
FileOp(path, mode, chunks) == [path |-> path, mode |-> mode, chunks |-> chunks]

\* the file operations of write_hook(hook_path, content, hook_name)
WriteHookOps(f, dir, name, content) ==
    LET p == HookPath(dir, name)
        cur == f.file[p]
        lines == splitlines(content)
        body_start == BodyStart(lines, 1, 0)
    IN  IF cur.exists
        THEN IF HasSignature(cur.text) THEN <<>>
             ELSE <<FileOp(p, "a",
                      <<"\n# --- progressive-context hooks ---\n",
                        join("\n", SubSeq(lines, body_start + 1, Len(lines)))
                            \o "\n">>)>>
        ELSE <<FileOp(p, "w", <<content>>)>>

\* the file operations of _remove_hook_file(hook_path, hook_name)
RemoveHookOps(f, dir, name) ==
    LET p == HookPath(dir, name)
        cur == f.file[p]
    IN  IF ~cur.exists \/ ~HasSignature(cur.text) THEN <<>>
        ELSE IF Len(foreign_lines(cur.text)) = 0 THEN <<FileOp(p, "unlink", <<>>)>>
        ELSE <<FileOp(p, "w",
                 <<join("\n", CleanLoop(splitlines(cur.text), 1, FALSE, <<>>))
                       \o "\n">>)>>

\* the file operations of main without --uninstall, in order
InstallOps(f) ==
    IF detect_husky(f)
    THEN WriteHookOps(f, HUSKY, "post-commit", read_template("post-commit"))
         \o WriteHookOps(f, HUSKY, "post-merge", read_template("post-merge"))
    ELSE IF detect_precommit(f)
    THEN IF Contains(f.file[PRECOMMIT_CONFIG].text, "context_check_watches")
         THEN <<>>
         ELSE <<FileOp(PRECOMMIT_CONFIG, "a", <<HOOK_ENTRY>>)>>
    ELSE WriteHookOps(f, GITHOOKS, "post-commit", read_template("post-commit"))
         \o WriteHookOps(f, GITHOOKS, "post-merge", read_template("post-merge"))

\* the file operations of main with --uninstall, in order
UninstallOps(f) ==
    IF detect_husky(f)
    THEN RemoveHookOps(f, HUSKY, "post-commit")
         \o RemoveHookOps(f, HUSKY, "post-merge")
    ELSE IF detect_precommit(f)
    THEN LET cfg == f.file[PRECOMMIT_CONFIG]
         IN  IF ~Contains(cfg.text, CONTEXT_HOOK_MARKER) THEN <<>>
             ELSE <<FileOp(PRECOMMIT_CONFIG, "w",
                      <<join("\n", ConfigLoop(splitlines(cfg.text), 1, FALSE, <<>>))
                            \o "\n">>)>>
    ELSE IF ~f.dir[GITHOOKS] THEN <<>>
    ELSE RemoveHookOps(f, GITHOOKS, "post-commit")
         \o RemoveHookOps(f, GITHOOKS, "post-merge")

\* the repositories a run starts from
WriteRepos == HuskyRepos \cup PrecommitRepos \cup PlainRepos

InitWrite ==
    /\ fs \in WriteRepos
    /\ hist = <<>>
    /\ edits = 0
    /\ nops = 0
    /\ io = NoRun
    /\ HashIdle /\ DocsIdle /\ CodecIdle

\* main starts: detection, and install_plain_git's mkdir
StartRun ==
    \E run \in {"install", "uninstall"}, ok \in BOOLEAN :
        /\ io = NoRun
        /\ nops < MaxOps
        /\ io' = [run |-> run, before |-> fs, ok |-> ok, open |-> FALSE, buf |-> "",
                  ops |-> IF run = "install" THEN InstallOps(fs)
                          ELSE UninstallOps(fs)]
        /\ fs' = IF run = "install" /\ ~detect_husky(fs) /\ ~detect_precommit(fs)
                 THEN [fs EXCEPT !.dir[GITHOOKS] = TRUE]
                 ELSE fs
        /\ nops' = nops + 1
        /\ UNCHANGED <<hist, edits, hashVars, docVars, codecVars>>

\* the next file operation begins: open(path, "a") leaves the file as it
\* is, open(path, "w") creates it or truncates it, unlink removes it
OpenFile ==
    /\ io # NoRun
    /\ ~io.open
    /\ io.ops # <<>>
    /\ LET op == Head(io.ops)
       IN  /\ fs' = IF op.mode = "w"
                    THEN [fs EXCEPT !.file[op.path] =
                             [exists |-> TRUE, text |-> "", exec |-> @.exec]]
                    ELSE IF op.mode = "unlink"
                    THEN [fs EXCEPT !.file[op.path] = NoFile]
                    ELSE fs
           /\ io' = IF op.mode = "unlink"
                    THEN [io EXCEPT !.ops = Tail(@)]
                    ELSE [io EXCEPT !.open = TRUE, !.buf = ""]
    /\ UNCHANGED <<hist, edits, nops, hashVars, docVars, codecVars>>

\* f.write(text): the text goes to the buffer of the open file
WriteChunk ==
    /\ io # NoRun
    /\ io.open
    /\ Head(io.ops).chunks # <<>>
    /\ io' = [io EXCEPT !.buf = @ \o Head(Head(io.ops).chunks),
                        !.ops[1].chunks = Tail(@)]
    /\ UNCHANGED <<fs, hist, edits, nops, hashVars, docVars, codecVars>>

\* the file f with the buffered text flushed to the open file
Flushed(f) ==
    IF io.open
    THEN [f EXCEPT !.file[Head(io.ops).path].text = @ \o io.buf]
    ELSE f

\* the with block ends: the file is closed, and write_hook makes it
\* executable
CloseFile ==
    /\ io # NoRun
    /\ io.open
    /\ Head(io.ops).chunks = <<>>
    /\ fs' = [Flushed(fs) EXCEPT !.file[Head(io.ops).path].exec =
                 IF io.run = "install" /\ Head(io.ops).path # PRECOMMIT_CONFIG
                 THEN TRUE ELSE @]
    /\ io' = [io EXCEPT !.open = FALSE, !.buf = "", !.ops = Tail(@)]
    /\ UNCHANGED <<hist, edits, nops, hashVars, docVars, codecVars>>

\* the run ends: what is left of the routine (the setting, rmdir) is done
FinishRun ==
    /\ io # NoRun
    /\ ~io.open
    /\ io.ops = <<>>
    /\ fs' = LET r == IF io.run = "install" THEN main_install(io.before, io.ok)
                      ELSE main_uninstall(io.before, io.ok)
             IN  [r EXCEPT !.file = fs.file]
    /\ hist' = Logged(io.run, io.before)
    /\ io' = NoRun
    /\ UNCHANGED <<edits, nops, hashVars, docVars, codecVars>>

\* the run is interrupted by an exception (KeyboardInterrupt, a failing
\* write): the with block closes the open file and flushes its buffer
Interrupt ==
    /\ io # NoRun
    /\ fs' = Flushed(fs)
    /\ hist' = Logged(io.run \o " interrupted", io.before)
    /\ io' = NoRun
    /\ UNCHANGED <<edits, nops, hashVars, docVars, codecVars>>

\* the process is killed: the buffer of the open file is lost
Kill ==
    /\ io # NoRun
    /\ hist' = Logged(io.run \o " interrupted", io.before)
    /\ io' = NoRun
    /\ UNCHANGED <<fs, edits, nops, hashVars, docVars, codecVars>>

NextWrite ==
    StartRun \/ OpenFile \/ WriteChunk \/ CloseFile \/ FinishRun
    \/ Interrupt \/ Kill

SpecWrite == InitWrite /\ [][NextWrite]_vars

\* a run followed to its end leaves the files its routine leaves
StepsAgree ==
    (io = NoRun /\ LastOp \in {"install", "uninstall"}) =>
        \E ok \in BOOLEAN :
            fs = IF LastOp = "install" THEN main_install(LastBefore, ok)
                 ELSE main_uninstall(LastBefore, ok)

\* C18: after a run of install or uninstall that was terminated, every
\* file is either as it was before the run or as the complete run leaves
\* it: none holds a part of this system's section or a part of its text
C18_NoPartialWrite ==
    (io = NoRun /\ LastOp \in {"install interrupted", "uninstall interrupted"}) =>
        LET b == LastBefore
            done == IF LastOp = "install interrupted" THEN main_install(b, TRUE)
                    ELSE main_uninstall(b, TRUE)
        IN  \A p \in Paths :
               \/ /\ fs.file[p].exists = b.file[p].exists
                  /\ fs.file[p].text = b.file[p].text
               \/ /\ fs.file[p].exists = done.file[p].exists
                  /\ fs.file[p].text = done.file[p].text

(***************************************************************************)
(* The marker codec: build_marker, then parse_freshness_marker             *)
(***************************************************************************)

HooksIdle ==
    fs = EmptyRepo /\ hist = <<>> /\ edits = 0 /\ nops = 0 /\ io = NoRun

\* patterns of a record's watch list, at most
MaxPatterns == 2

\* watch patterns: a usual one, one with a blank inside, one that begins
\* with a dash, and two that read like a line of the marker itself
CodecPatterns ==
    {"src/**/*.py", "my docs/*", "-x", "watches:", "last_verified: 1999-01-01"}

\* the well-formed records: the hash and the date are tokens without blanks,
\* the patterns are not empty and have no blanks around them
WellFormedRecords ==
    {[watches_hash |-> h, last_verified |-> d, watches |-> w] :
        h \in {"abc1234", "0000000"},
        d \in {"2026-11-03"},
        w \in UNION {[1..k -> CodecPatterns] : k \in 0..MaxPatterns}}

\* what a document holds before the marker appended to it
CodecPrefixes == {"", "# Notes\n\nSee src.\n"}

InitCodec ==
    /\ rec \in WellFormedRecords
    /\ marker = ""
    /\ parsed = NotParsed
    /\ HooksIdle /\ HashIdle /\ DocsIdle

\* build_marker serializes the record
Serialize ==
    /\ marker = ""
    /\ marker' = build_marker(rec.watches_hash, rec.watches, rec.last_verified)
    /\ UNCHANGED <<rec, parsed, hookVars, hashVars, docVars>>

\* parse_freshness_marker reads a document that ends with the marker
Parse ==
    \E prefix \in CodecPrefixes :
        /\ marker # ""
        /\ parsed' = [done |-> TRUE, prefix |-> prefix,
                      result |-> parse_freshness_marker(prefix \o marker)]
        /\ UNCHANGED <<rec, marker, hookVars, hashVars, docVars>>

NextCodec == Serialize \/ Parse

SpecCodec == InitCodec /\ [][NextCodec]_vars

\* C6: parsing the text build_marker made of a well-formed record gives the
\* record back: the same watches_hash, the same last_verified and the same
\* patterns in the same order
C6_MarkerRoundTrip ==
    parsed.done =>
        /\ parsed.result.marker
        /\ parsed.result.watches_hash = rec.watches_hash
        /\ parsed.result.has_last_verified
        /\ parsed.result.last_verified = rec.last_verified
        /\ parsed.result.watches = rec.watches

\* a record with two different patterns has been serialized and parsed back
\* out of a document with text before the marker
C6_Witness ==
    /\ parsed.done
    /\ parsed.prefix # ""
    /\ Len(rec.watches) = 2
    /\ rec.watches[1] # rec.watches[2]
    /\ parsed.result.watches = rec.watches

(***************************************************************************)
(* The hash engine at work: tracked files change, compute_hash is called   *)
(***************************************************************************)

\* watch patterns in one list, at most
MaxGlobs == 2
\* changes of file contents, at most
MaxRev == 1

\* the files of the work tree
Files == {"src/a.py", "src/b.md", "README.md"}

\* the watch patterns
Globs == {"src/*", "*.py"}

\* the lists of watch patterns, the empty one too
GlobLists == UNION {[1..k -> Globs] : k \in 0..MaxGlobs}

InitHash ==
    /\ tracked \in SUBSET Files
    /\ rev = 0
    /\ hcall = NoCall
    /\ HooksIdle /\ DocsIdle /\ CodecIdle

\* the tracked files that the patterns of watch_globs match
MatchedSet(tracked_, watch_globs) == matched(all_files(tracked_), watch_globs)

\* the record of the last call once the tracked files are tracked_: it is
\* kept as long as the call would match the files it matched
Kept(tracked_) ==
    IF hcall.called
       /\ MatchedSet(tracked_, hcall.globs) = MatchedSet(tracked, hcall.globs)
    THEN hcall ELSE NoCall

\* git add f; git commit
GitAdd ==
    \E f \in Files \ tracked :
        /\ tracked' = tracked \cup {f}
        /\ hcall' = Kept(tracked')
        /\ UNCHANGED <<rev, hookVars, docVars, codecVars>>

\* git rm f; git commit
GitRm ==
    \E f \in tracked :
        /\ tracked' = tracked \ {f}
        /\ hcall' = Kept(tracked')
        /\ UNCHANGED <<rev, hookVars, docVars, codecVars>>

\* the content of a tracked file changes; git commit
EditFile ==
    /\ tracked # {}
    /\ rev < MaxRev
    /\ rev' = rev + 1
    /\ hcall' = hcall
    /\ UNCHANGED <<tracked, hookVars, docVars, codecVars>>

\* each tool's compute_hash is called with the same watch patterns, the
\* git commands ending the same way; the call is put on record when no
\* call is
ComputeHash ==
    \E watch_globs \in GlobLists, lsOk \in BOOLEAN, hashOk \in BOOLEAN :
        /\ ~hcall.called
        /\ hcall' = [called |-> TRUE, globs |-> watch_globs,
                     at |-> [tracked |-> tracked, rev |-> rev],
                     lsOk |-> lsOk, hashOk |-> hashOk,
                     audit |-> audit_compute_hash(tracked, watch_globs, lsOk, hashOk),
                     bootstrap |-> bootstrap_compute_hash(tracked, watch_globs, lsOk, hashOk),
                     update |-> update_compute_hash(tracked, watch_globs, lsOk, hashOk)]
        /\ UNCHANGED <<tracked, rev, hookVars, docVars, codecVars>>

NextHash == GitAdd \/ GitRm \/ EditFile \/ ComputeHash

SpecHash == InitHash /\ [][NextHash]_vars

\* the fingerprint when both git commands succeed
Fingerprint(tracked_, watch_globs) ==
    audit_compute_hash(tracked_, watch_globs, TRUE, TRUE)

\* C7: the fingerprint depends on the set of matched tracked paths only: as
\* long as the files the call matched are the files its patterns match, any
\* pattern list (any order, any duplicates) that matches the same non-empty
\* set gets the fingerprint the call returned, whatever has happened to the
\* contents and to the tracked files that are not matched
C7_FingerprintOfMatchedSet ==
    (hcall.called /\ hcall.lsOk /\ hcall.hashOk
        /\ MatchedSet(tracked, hcall.globs) # {})
    => \A g \in GlobLists :
           MatchedSet(tracked, g) = MatchedSet(tracked, hcall.globs)
           => Fingerprint(tracked, g) = hcall.audit

\* compute_hash returned a digest for a list of two different patterns that
\* match two files; since then a content has changed and the tracked files
\* that are not matched have changed
C7_Witness ==
    /\ hcall.called
    /\ hcall.lsOk /\ hcall.hashOk
    /\ Len(hcall.globs) = 2
    /\ hcall.globs[1] # hcall.globs[2]
    /\ hcall.audit \notin {"ERROR", "0000000"}
    /\ Len(hcall.audit) = 7
    /\ Cardinality(MatchedSet(tracked, hcall.globs)) = 2
    /\ MatchedSet(tracked, <<hcall.globs[2]>>) # MatchedSet(tracked, <<hcall.globs[1]>>)
    /\ hcall.at.tracked # tracked
    /\ hcall.at.rev # rev

\* C8: in each tool's compute_hash a failure of the listing or of the
\* hashing gives "ERROR" or ends the run, and "0000000" comes back only
\* when the listing succeeded and no tracked file matches a pattern
C8_SentinelsNotConfused ==
    hcall.called =>
        LET none == MatchedSet(tracked, hcall.globs) = {}
            failed == ~hcall.lsOk \/ (~none /\ ~hcall.hashOk)
        IN  \A r \in {hcall.audit, hcall.bootstrap, hcall.update} :
                /\ failed => r \in {"ERROR", EXIT1}
                /\ r = "0000000" => (hcall.lsOk /\ none)

(***************************************************************************)
(* context_bootstrap.py: add a marker to a document                        *)
(***************************************************************************)

\* a document that exists but cannot be opened, and one whose bytes are not
\* UTF-8
Unopenable == [kind |-> "oserror", text |-> ""]
Undecodable == [kind |-> "undecodable", text |-> ""]

\* what a run that ends in an uncaught exception prints
TRACEBACK == "Traceback (most recent call last):"

\* add_marker(filepath, watch_globs) on a document with the text content:
\* the text afterwards, the lines printed and the exit status
add_marker(filepath, content, watch_globs, today_, tracked_, rootOk, lsOk, hashOk) ==
    IF has_freshness_marker(content)
    THEN [content |-> content, exit |-> 0,
          out |-> <<"Already tracked: " \o filepath>>]
    ELSE IF ~rootOk
    THEN [content |-> content, exit |-> 1,
          out |-> <<"Error: not inside a git repository">>]
    ELSE LET watches_hash == bootstrap_compute_hash(tracked_, watch_globs, lsOk, hashOk)
             marker_ == build_marker(watches_hash, watch_globs, today_)
             ended == IF endswith(content, "\n") THEN content ELSE content \o "\n"
         IN  [content |-> ended \o marker_, exit |-> 0,
              out |-> <<"Added freshness marker to " \o filepath,
                        "  watches_hash: " \o watches_hash,
                        "  watches: " \o join(", ", watch_globs)>>]

\* main of context_bootstrap.py called as `<file> glob1 glob2 ...`: the
\* documents afterwards, the lines printed and the exit status
bootstrap_main(docs_, filepath, watch_globs, today_, tracked_, rootOk, lsOk, hashOk) ==
    LET d == docs_[filepath]
    IN  IF d.kind = "absent"
        THEN [docs |-> docs_, exit |-> 1,
              out |-> <<"Error: file not found: " \o filepath>>]
        ELSE IF Len(watch_globs) = 0
        THEN [docs |-> docs_, exit |-> 1,
              out |-> <<"Error: at least one watch glob is required">>]
        ELSE IF d.kind # "text"
        THEN [docs |-> docs_, exit |-> 1, out |-> <<TRACEBACK>>]
        ELSE LET r == add_marker(filepath, d.text, watch_globs, today_,
                                 tracked_, rootOk, lsOk, hashOk)
             IN  [docs |-> [docs_ EXCEPT ![filepath] = Doc(r.content)],
                  exit |-> r.exit, out |-> r.out]

(***************************************************************************)
(* context_audit.py: the freshness report                                  *)
(***************************************************************************)

\* find_context_files: the documents that exist, sorted
find_context_files(docs_) == sorted({d \in DocNames : docs_[d].kind # "absent"})

\* the report before the first document
EmptyReport ==
    [tool |-> "audit", exit |-> 0, found |-> TRUE, rows |-> <<>>,
     summary |-> FALSE, stale_count |-> 0, ok_count |-> 0, missing_count |-> 0]

\* the loop of main over context_files from the i-th on; r is the report so
\* far.  (The list of changed files under a STALE row is left out.)
RECURSIVE AuditLoop(_, _, _, _, _, _, _)
AuditLoop(docs_, tracked_, lsOk, hashOk, context_files, i, r) ==
    IF i > Len(context_files) THEN [r EXCEPT !.summary = TRUE]
    ELSE
    LET rel_path == context_files[i]
        d == docs_[rel_path]
        marker_ == parse_freshness_marker(d.text)
        stored_hash == marker_.watches_hash
        current_hash == audit_compute_hash(tracked_, marker_.watches, lsOk, hashOk)
        last_verified == IF marker_.has_last_verified THEN marker_.last_verified
                         ELSE "unknown"
        Row(verdict) == [verdict |-> verdict, doc |-> rel_path]
        Next_(r2) == AuditLoop(docs_, tracked_, lsOk, hashOk, context_files, i + 1, r2)
    IN  IF d.kind = "oserror"
        THEN Next_([r EXCEPT !.rows = Append(@, Row("ERROR"))])
        ELSE IF d.kind = "undecodable"
        THEN [r EXCEPT !.exit = 1]
        ELSE IF ~marker_.marker
        THEN Next_([r EXCEPT !.rows = Append(@, Row("NONE")),
                             !.missing_count = @ + 1])
        ELSE IF stored_hash # current_hash
        THEN Next_([r EXCEPT !.rows = Append(@,
                                 [verdict |-> "STALE", doc |-> rel_path,
                                  stored |-> stored_hash, current |-> current_hash,
                                  last_verified |-> last_verified]),
                             !.stale_count = @ + 1])
        ELSE Next_([r EXCEPT !.rows = Append(@,
                                 [verdict |-> "OK", doc |-> rel_path,
                                  stored |-> stored_hash, current |-> current_hash,
                                  last_verified |-> last_verified]),
                             !.ok_count = @ + 1])

\* main of context_audit.py
audit_main(docs_, tracked_, rootOk, lsOk, hashOk) ==
    LET context_files == find_context_files(docs_)
    IN  IF ~rootOk THEN [EmptyReport EXCEPT !.exit = 1, !.found = FALSE]
        ELSE IF Len(context_files) = 0 THEN [EmptyReport EXCEPT !.found = FALSE]
        ELSE AuditLoop(docs_, tracked_, lsOk, hashOk, context_files, 1, EmptyReport)

(***************************************************************************)
(* The documents the tools meet                                            *)
(***************************************************************************)

\* lines between the delimiters of a block a person wrote, at most
MaxBodyLines == 2

\* the lines such a block is made of
BodyLines ==
    {"watches_hash: abc1234", "watches_hash:", "last_verified: 2026-01-01",
     "watches:", "  - src/*"}

\* the blocks a person wrote: a delimiter, up to MaxBodyLines lines, the
\* closing delimiter
HandBlocks ==
    {"<!-- freshness\n" \o join("\n", ls) \o "\n-->\n" :
        ls \in UNION {[1..k -> BodyLines] : k \in 1..MaxBodyLines}}

\* the tracked files while the documents are studied
DocTracked == {"src/a.py", "README.md"}

\* documents with a marker that add_marker wrote: one whose hash is the
\* fingerprint of its patterns, one whose hash is not, one whose patterns
\* match no tracked file
CurrentText ==
    "# API\n" \o build_marker(Fingerprint(DocTracked, <<"src/*">>), <<"src/*">>, "2026-10-01")
StaleText == "# Old\n" \o build_marker("abc1234", <<"src/*", "*.py">>, "2026-01-01")
NoMatchText == "# None\n" \o build_marker("0000000", <<"docs/*">>, "2026-10-01")

\* the texts of a document: without a block, with a block that is not
\* closed, with a hand-written block, with a marker of add_marker
DocTexts ==
    {"", "# Notes", "# Notes\n\nText.\n", "# Notes\n<!-- freshness\nwatches_hash: abc1234\n"}
    \cup {"# Notes\n" \o b : b \in HandBlocks}
    \cup {CurrentText, StaleText, NoMatchText}

DocStates == {Unopenable, Undecodable} \cup {Doc(t) : t \in DocTexts}

\* the dates a tool runs on
Dates == {"2026-11-03", "2026-11-04"}

\* the watch patterns a user passes to context_bootstrap.py
AddGlobLists == {<<>>, <<"src/*">>, <<"*.md", "src/*">>}

\* the record of the last runs after a run of tool on filepath
DocLogged(tool, filepath, exit) ==
    LET e == [tool |-> tool, doc |-> filepath, exit |-> exit, before |-> docs]
    IN  IF Len(dlog) < 2 THEN Append(dlog, e) ELSE <<dlog[2], e>>

\* runs of a tool in one behaviour, at most
MaxRuns == 2

(***************************************************************************)
(* Adding markers                                                          *)
(***************************************************************************)

InitBootstrap ==
    /\ docs \in {[d \in DocNames |-> IF d = "AGENTS.md" THEN a ELSE Absent] :
                    a \in DocStates}
    /\ dlog = <<>>
    /\ dops = 0
    /\ report = NoReport
    /\ tracked = DocTracked /\ rev = 0 /\ hcall = NoCall
    /\ HooksIdle /\ CodecIdle

\* python3 context_bootstrap.py <file> glob1 glob2 ...
AddMarker ==
    \E filepath \in {"AGENTS.md", "CLAUDE.md"}, watch_globs \in AddGlobLists,
       today_ \in Dates, rootOk \in BOOLEAN, lsOk \in BOOLEAN, hashOk \in BOOLEAN :
        LET r == bootstrap_main(docs, filepath, watch_globs, today_, tracked,
                                rootOk, lsOk, hashOk)
        IN  /\ dops < MaxRuns
            /\ docs' = r.docs
            /\ report' = [tool |-> "bootstrap", exit |-> r.exit, out |-> r.out]
            /\ dlog' = DocLogged("bootstrap", filepath, r.exit)
            /\ dops' = dops + 1
            /\ UNCHANGED <<hookVars, hashVars, codecVars>>

NextBootstrap == AddMarker

SpecBootstrap == InitBootstrap /\ [][NextBootstrap]_vars

\* add_marker has run twice on the same document and the first run ended
\* normally
AddedTwice ==
    /\ Len(dlog) = 2
    /\ dlog[1].tool = "bootstrap" /\ dlog[2].tool = "bootstrap"
    /\ dlog[1].doc = dlog[2].doc
    /\ dlog[1].exit = 0

\* how many times sub occurs in s
Occurrences(s, sub) == Cardinality({i \in 1..Len(s) : StartsWithAt(s, sub, i)})

\* C5: add_marker twice on the same document, whatever the watch patterns of
\* the second call: the document after the second call is the document
\* after the first, the second call reports it as already tracked (or, given
\* no pattern at all, main refuses the call), and the document holds no
\* second marker block
C5_AddMarkerIdempotent ==
    AddedTwice =>
        LET d == dlog[2].doc
        IN  /\ docs = dlog[2].before
            /\ docs[d].kind = "text"
            /\ has_freshness_marker(docs[d].text)
            /\ Len(dlog[2].before[d].text) = Len(docs[d].text)
            /\ report.out = IF report.exit = 0
                            THEN <<"Already tracked: " \o d>>
                            ELSE <<"Error: at least one watch glob is required">>
            /\ Occurrences(docs[d].text, "<!-- freshness")
                   = Occurrences(dlog[2].before[d].text, "<!-- freshness")

\* the first call appended a marker to a document that had none, and a
\* second call with patterns ran on it
C5_Witness ==
    /\ AddedTwice
    /\ dlog[1].before[dlog[1].doc].kind = "text"
    /\ ~has_freshness_marker(dlog[1].before[dlog[1].doc].text)
    /\ dlog[2].before # dlog[1].before
    /\ report.tool = "bootstrap" /\ report.exit = 0
    /\ report.out = <<"Already tracked: " \o dlog[2].doc>>

(***************************************************************************)
(* Auditing the documents                                                  *)
(***************************************************************************)

InitAudit ==
    /\ docs \in {[d \in DocNames |->
                    IF d = "AGENTS.md" THEN a
                    ELSE IF d = "CLAUDE.md" THEN c ELSE k] :
                    a \in DocStates,
                    c \in {Absent, Unopenable, Undecodable},
                    k \in {Absent, Doc(CurrentText)}}
    /\ dlog = <<>>
    /\ dops = 0
    /\ report = NoReport
    /\ tracked = DocTracked /\ rev = 0 /\ hcall = NoCall
    /\ HooksIdle /\ CodecIdle

\* python3 context_audit.py
Audit ==
    \E rootOk \in BOOLEAN, lsOk \in BOOLEAN, hashOk \in BOOLEAN :
        LET r == audit_main(docs, tracked, rootOk, lsOk, hashOk)
        IN  /\ dops < MaxRuns
            /\ report' = r
            /\ dlog' = DocLogged("audit", "", r.exit)
            /\ dops' = dops + 1
            /\ UNCHANGED <<docs, hookVars, hashVars, codecVars>>

NextAudit == Audit

SpecAudit == InitAudit /\ [][NextAudit]_vars

\* the document has a delimiter block, and the block gives no watches_hash
\* value or no watches entry
IncompleteMarker(content) ==
    LET m == FRESHNESS_PATTERN(content)
        block == Block(content, m)
    IN  /\ m.found
        /\ \/ ~FieldSearch(block, "watches_hash:").found
           \/ WatchesLoop(splitlines(block), 1, FALSE, <<>>) = <<>>

\* the rows of the report about the documents that satisfy P
RowsOf(P(_)) == {k \in 1..Len(report.rows) : P(report.rows[k])}

\* C9: the audit reports every document whose block lacks a watches_hash
\* value or has no watches entry as NONE, never as STALE or OK
C9_IncompleteMarkerIsUnmarked ==
    report.tool = "audit" =>
        \A k \in 1..Len(report.rows) :
            LET row == report.rows[k]
                d == docs[row.doc]
            IN  (d.kind = "text" /\ IncompleteMarker(d.text))
                => row.verdict = "NONE"

\* what the audit is to report about a document
Verdict(d) ==
    IF d.kind # "text" THEN "ERROR"
    ELSE LET marker_ == parse_freshness_marker(d.text)
         IN  IF ~marker_.marker THEN "NONE"
             ELSE "OK or STALE"

\* C10: the audit reports every discovered document exactly once, as ERROR
\* when it cannot be read, NONE without a marker, OK when the stored hash is
\* the fingerprint and STALE when it is not; the three counters count the
\* STALE, OK and NONE rows, so that their sum is the number of readable
\* documents
C10_AuditPartitions ==
    (report.tool = "audit" /\ report.found) =>
        LET context_files == find_context_files(docs)
            rows == report.rows
            Count(v) == Cardinality({k \in 1..Len(rows) : rows[k].verdict = v})
            readable == {d \in DocNames : docs[d].kind = "text"}
        IN  /\ Len(rows) = Len(context_files)
            /\ \A k \in 1..Len(rows) :
                  /\ rows[k].doc = context_files[k]
                  /\ rows[k].verdict \in {"ERROR", "NONE", "OK", "STALE"}
                  /\ Verdict(docs[rows[k].doc]) \in {rows[k].verdict, "OK or STALE"}
                  /\ rows[k].verdict \in {"OK", "STALE"} =>
                        /\ Verdict(docs[rows[k].doc]) = "OK or STALE"
                        /\ (rows[k].verdict = "OK") = (rows[k].stored = rows[k].current)
            /\ report.summary
            /\ report.stale_count = Count("STALE")
            /\ report.ok_count = Count("OK")
            /\ report.missing_count = Count("NONE")
            /\ report.stale_count + report.ok_count + report.missing_count
                   = Cardinality(readable)

(***************************************************************************)
(* context_check_watches.py: warn about documents a change may outdate     *)
(***************************************************************************)

\* the loop of parse_watches over the lines of the block: a line that is no
\* list item ends the loop
RECURSIVE ParseWatchesLoop(_, _, _, _)
ParseWatchesLoop(lines, i, in_watches, watches) ==
    IF i > Len(lines) THEN watches
    ELSE LET stripped == strip(lines[i])
         IN  IF startswith(stripped, "watches:")
             THEN ParseWatchesLoop(lines, i + 1, TRUE, watches)
             ELSE IF ~in_watches
             THEN ParseWatchesLoop(lines, i + 1, in_watches, watches)
             ELSE IF startswith(stripped, "- ")
             THEN ParseWatchesLoop(lines, i + 1, in_watches,
                                   Append(watches, strip(From(stripped, 3))))
             ELSE IF stripped # "" /\ ~startswith(stripped, "-")
             THEN watches
             ELSE ParseWatchesLoop(lines, i + 1, in_watches, watches)

\* parse_watches(block) of context_update_hash.py
update_parse_watches(block) == ParseWatchesLoop(splitlines(block), 1, FALSE, <<>>)

\* parse_watches(block) of context_check_watches.py
check_parse_watches(block) == ParseWatchesLoop(splitlines(block), 1, FALSE, <<>>)

\* the documents in the order find_tracked_context_files meets them: the
\* order of CONTEXT_GLOBS
ContextGlobOrder == <<"docs/context/api.md", "CLAUDE.md", "AGENTS.md">>

\* find_tracked_context_files from the i-th document on: the (path, watches)
\* pairs of the documents with a marker and watches, after results; crashed
\* when a document does not decode
RECURSIVE FindTrackedLoop(_, _, _)
FindTrackedLoop(docs_, i, results) ==
    IF i > Len(ContextGlobOrder) THEN [crashed |-> FALSE, results |-> results]
    ELSE LET fpath == ContextGlobOrder[i]
             d == docs_[fpath]
             m == FRESHNESS_PATTERN(d.text)
             watches == check_parse_watches(Block(d.text, m))
         IN  IF d.kind \in {"absent", "oserror"}
             THEN FindTrackedLoop(docs_, i + 1, results)
             ELSE IF d.kind = "undecodable"
             THEN [crashed |-> TRUE, results |-> results]
             ELSE IF m.found /\ Len(watches) > 0
             THEN FindTrackedLoop(docs_, i + 1,
                      Append(results, [path |-> fpath, watches |-> watches]))
             ELSE FindTrackedLoop(docs_, i + 1, results)

find_tracked_context_files(docs_) == FindTrackedLoop(docs_, 1, <<>>)

\* the first of modified_files from the j-th on that a pattern of watches
\* matches, 0 when none does
RECURSIVE FirstMatching(_, _, _)
FirstMatching(modified_files, watches, j) ==
    IF j > Len(modified_files) THEN 0
    ELSE IF \E k \in 1..Len(watches) : fnmatch(modified_files[j], watches[k])
    THEN j
    ELSE FirstMatching(modified_files, watches, j + 1)

\* the loops of main over tracked from the i-th pair on: the warnings
RECURSIVE WarnLoop(_, _, _)
WarnLoop(tracked_docs, modified_files, i) ==
    IF i > Len(tracked_docs) THEN <<>>
    ELSE LET j == FirstMatching(modified_files, tracked_docs[i].watches, 1)
             rest == WarnLoop(tracked_docs, modified_files, i + 1)
         IN  IF j = 0 THEN rest
             ELSE <<[doc |-> tracked_docs[i].path, modified |-> modified_files[j]]>>
                  \o rest

\* main of context_check_watches.py: the warnings printed and the exit
\* status.  (Outside a repository find_git_root gives the current directory,
\* here the directory of the documents.)
check_main(docs_, modified_files) ==
    LET found == find_tracked_context_files(docs_)
    IN  IF Len(modified_files) = 0
        THEN [tool |-> "check", exit |-> 0, warnings |-> <<>>]
        ELSE IF found.crashed
        THEN [tool |-> "check", exit |-> 1, warnings |-> <<>>]
        ELSE [tool |-> "check", exit |-> 0,
              warnings |-> WarnLoop(found.results, modified_files, 1)]

(***************************************************************************)
(* The two report tools                                                    *)
(***************************************************************************)

\* the lists of modified paths a hook passes to context_check_watches.py
ModifiedLists == {<<>>, <<"README.md">>, <<"src/a.py", "README.md">>}

\* python3 context_check_watches.py file1 file2 ...
CheckWatches ==
    \E modified_files \in ModifiedLists :
        LET r == check_main(docs, modified_files)
        IN  /\ dops < MaxRuns
            /\ report' = [tool |-> "check", exit |-> r.exit,
                          warnings |-> r.warnings, modified |-> modified_files]
            /\ dlog' = DocLogged("check", "", r.exit)
            /\ dops' = dops + 1
            /\ UNCHANGED <<docs, hookVars, hashVars, codecVars>>

NextReport == Audit \/ CheckWatches

SpecReport == InitAudit /\ [][NextReport]_vars

\* the watch list context_check_watches.py reads from the document d, <<>>
\* when d is not a readable text with a marker
WatchesOf(d) ==
    IF docs[d].kind # "text" THEN <<>>
    ELSE LET m == FRESHNESS_PATTERN(docs[d].text)
         IN  IF m.found THEN check_parse_watches(Block(docs[d].text, m)) ELSE <<>>

\* the positions in the modified paths of the last run that a pattern of
\* the document d matches
MatchingModified(d) ==
    {j \in 1..Len(report.modified) :
        \E k \in 1..Len(WatchesOf(d)) : fnmatch(report.modified[j], WatchesOf(d)[k])}

\* the warnings of the last run about the document d
WarningsFor(d) ==
    {n \in 1..Len(report.warnings) : report.warnings[n].doc = d}

\* C21: the watch check prints, for every document with a marker and a
\* non-empty watch list, exactly one warning when a modified path matches
\* one of its patterns, naming the first such path, and none otherwise;
\* it prints no warning about any other document
C21_OneWarningPerDocument ==
    report.tool = "check" =>
        \A d \in DocNames :
            IF WatchesOf(d) # <<>> /\ MatchingModified(d) # {}
            THEN /\ Cardinality(WarningsFor(d)) = 1
                 /\ \A n \in WarningsFor(d) :
                        report.warnings[n].modified =
                            report.modified[MinOf(MatchingModified(d))]
            ELSE WarningsFor(d) = {}

\* C11: the audit and the watch check end with exit status 0, whatever they
\* find and wherever they run
C11_ReportToolsExitZero ==
    report.tool \in {"audit", "check"} => report.exit = 0

(***************************************************************************)
(* The three parsers of the watches list                                   *)
(***************************************************************************)

\* lines of a block below its watches_hash line, at most
MaxBlockLines == 4

\* the lines such a block is made of: the label, list items, a line that is
\* no list item, a blank line
WatchBlockLines == {"watches:", "  - src/*", "- *.md", "note: reviewed", ""}

\* the documents whose block is a watches_hash line and up to MaxBlockLines
\* of these lines
WatchDocs ==
    {"# Notes\n<!-- freshness\nwatches_hash: abc1234\n" \o join("\n", ls) \o "\n-->\n" :
        ls \in UNION {[1..k -> WatchBlockLines] : k \in 1..MaxBlockLines}}

InitParsers ==
    /\ rec = NoRecord
    /\ marker \in WatchDocs
    /\ parsed = NotParsed
    /\ HooksIdle /\ HashIdle /\ DocsIdle

\* each tool reads the watches list of the document
ParseWatches ==
    /\ ~parsed.done
    /\ LET block == Block(marker, FRESHNESS_PATTERN(marker))
       IN  parsed' = [done |-> TRUE,
                      audit |-> parse_freshness_marker(marker).watches,
                      update |-> update_parse_watches(block),
                      check |-> check_parse_watches(block)]
    /\ UNCHANGED <<rec, marker, hookVars, hashVars, docVars>>

NextParsers == ParseWatches

SpecParsers == InitParsers /\ [][NextParsers]_vars

\* C14: the audit, the update tool and the watch check read the same watches
\* list from the same block
C14_ParsersAgree ==
    parsed.done =>
        /\ parsed.audit = parsed.update
        /\ parsed.update = parsed.check

(***************************************************************************)
(* context_update_hash.py: rewrite the hash and the date of a marker       *)
(***************************************************************************)

\* re.sub(label + r"\s*\S+", repl, s) on s from the index from on: every
\* match, left to right, is replaced by repl
RECURSIVE re_sub(_, _, _, _)
re_sub(label, repl, s, from) ==
    LET at == {i \in from..Len(s) :
                  /\ StartsWithAt(s, label, i)
                  /\ SkipWs(s, i + Len(label)) <= Len(s)}
    IN  IF at = {} THEN From(s, from)
        ELSE LET i == MinOf(at)
                 a == SkipWs(s, i + Len(label))
                 e == SkipNonWs(s, a)
             IN  (IF i > from THEN SubSeq(s, from, i - 1) ELSE "")
                 \o repl \o re_sub(label, repl, s, e)

\* new_block of main: the block with both fields rewritten
new_block(block, new_hash, today_) ==
    re_sub("last_verified:", "last_verified: " \o today_,
           re_sub("watches_hash:", "watches_hash: " \o new_hash, block, 1), 1)

\* content[:match.start(2)] + new_block + content[match.end(2):]
new_content(content, m, block_) ==
    (IF m.lo > 1 THEN SubSeq(content, 1, m.lo - 1) ELSE "")
    \o block_ \o From(content, m.hi + 1)

\* main of context_update_hash.py called with a file path: the documents
\* afterwards, the exit status, the lines printed and the hash computed
update_main(docs_, filepath, today_, tracked_, rootOk, lsOk, hashOk) ==
    LET d == docs_[filepath]
        content == d.text
        m == FRESHNESS_PATTERN(content)
        block == Block(content, m)
        watches == update_parse_watches(block)
        new_hash == update_compute_hash(tracked_, watches, lsOk, hashOk)
        Fail(msg) == [docs |-> docs_, exit |-> 1, out |-> <<msg>>, new_hash |-> ""]
    IN  IF d.kind = "absent" THEN Fail("Error: file not found: " \o filepath)
        ELSE IF d.kind # "text" THEN Fail(TRACEBACK)
        ELSE IF ~m.found
        THEN Fail("Error: no freshness marker found in " \o filepath)
        ELSE IF Len(watches) = 0
        THEN Fail("Error: no watches found in freshness marker of " \o filepath)
        ELSE IF ~rootOk THEN Fail("Error: not inside a git repository")
        ELSE IF new_hash = EXIT1
        THEN Fail(IF lsOk THEN "Error: git hash-object failed"
                  ELSE "Error: git ls-files failed")
        ELSE [docs |-> [docs_ EXCEPT ![filepath] =
                           Doc(new_content(content, m,
                                           new_block(block, new_hash, today_)))],
              exit |-> 0,
              out |-> <<"Updated " \o filepath,
                        "  watches_hash: " \o new_hash,
                        "  last_verified: " \o today_,
                        "  watches: " \o join(", ", watches)>>,
              new_hash |-> new_hash]

(***************************************************************************)
(* Updating markers                                                        *)
(***************************************************************************)

\* documents a person edited: a marker whose watches_hash has lost its
\* value, a marker with blanks around the values, a marker with a note and
\* a second watches label
EmptyHashText ==
    "# Draft\n<!-- freshness\nwatches_hash:\nlast_verified: 2026-01-01\nwatches:\n  - src/*\n-->\nEnd.\n"
SpacedText ==
    "# Spaced\n<!--  freshness\n  watches_hash:   abc1234\n  last_verified:\t2026-01-01\n  watches:\n    - src/*\n    - *.md\n  -->\nEnd.\n"
DoubleLabelText ==
    "# Twice\n<!-- freshness\nwatches_hash: abc1234\nlast_verified: 2026-01-01\nwatches:\n  - src/*\nnote: reviewed\nwatches:\n  - *.md\n-->\n"

UpdateDocStates ==
    DocStates \cup {Doc(EmptyHashText), Doc(SpacedText), Doc(DoubleLabelText)}

InitUpdate ==
    /\ docs \in {[d \in DocNames |-> IF d = "AGENTS.md" THEN a ELSE Absent] :
                    a \in UpdateDocStates}
    /\ dlog = <<>>
    /\ dops = 0
    /\ report = NoReport
    /\ tracked = DocTracked /\ rev = 0 /\ hcall = NoCall
    /\ HooksIdle /\ CodecIdle

\* python3 context_update_hash.py <file-path>
UpdateHash ==
    \E filepath \in {"AGENTS.md", "CLAUDE.md"}, today_ \in Dates,
       rootOk \in BOOLEAN, lsOk \in BOOLEAN, hashOk \in BOOLEAN :
        LET r == update_main(docs, filepath, today_, tracked, rootOk, lsOk, hashOk)
        IN  /\ dops < MaxRuns
            /\ docs' = r.docs
            /\ report' = [tool |-> "update", exit |-> r.exit, out |-> r.out,
                          doc |-> filepath, new_hash |-> r.new_hash,
                          today |-> today_,
                          rootOk |-> rootOk, lsOk |-> lsOk, hashOk |-> hashOk]
            /\ dlog' = DocLogged("update", filepath, r.exit)
            /\ dops' = dops + 1
            /\ UNCHANGED <<hookVars, hashVars, codecVars>>

NextUpdate == UpdateHash

SpecUpdate == InitUpdate /\ [][NextUpdate]_vars

\* the documents the last run started from
DocsBefore == dlog[Len(dlog)].before

\* the last run of the update tool met a missing or unreadable file, a
\* document without a block, a block without a watches_hash field or
\* without watches, or a failing git command
UpdateMustFail ==
    LET d == DocsBefore[report.doc]
        m == FRESHNESS_PATTERN(d.text)
        block == Block(d.text, m)
        watches == update_parse_watches(block)
    IN  \/ d.kind # "text"
        \/ ~m.found
        \/ ~FieldSearch(block, "watches_hash:").found
        \/ Len(watches) = 0
        \/ ~report.rootOk
        \/ ~report.lsOk
        \/ (~report.hashOk /\ MatchedSet(tracked, watches) # {})

\* C12: whenever the file is missing, the document has no block, the block
\* has no watches_hash field or no watches, or a git step fails, the update
\* tool exits nonzero and leaves the documents as they were; when it exits
\* with 0 the marker holds the hash it computed
C12_UpdateFailsLoudly ==
    report.tool = "update" =>
        /\ UpdateMustFail => (report.exit # 0 /\ docs = DocsBefore)
        /\ report.exit = 0 =>
              LET t == docs[report.doc].text
                  f == FieldSearch(Block(t, FRESHNESS_PATTERN(t)), "watches_hash:")
              IN  f.found /\ f.value = report.new_hash

\* the line is a watches_hash or a last_verified line
IsFieldLine(line) ==
    \/ startswith(strip(line), "watches_hash:")
    \/ startswith(strip(line), "last_verified:")

\* C13: after a successful run of the update tool the document differs from
\* what it was only in the watches_hash and last_verified lines of the
\* first block: the text before and after the block, the watches list and
\* every other line of the block are as they were
C13_UpdateChangesTwoFields ==
    (report.tool = "update" /\ report.exit = 0) =>
        LET old == DocsBefore[report.doc].text
            new == docs[report.doc].text
            m == FRESHNESS_PATTERN(old)
            n == FRESHNESS_PATTERN(new)
            oldLines == splitlines(Block(old, m))
            newLines == splitlines(Block(new, n))
        IN  /\ n.found /\ n.lo = m.lo
            /\ SubSeq(old, 1, m.lo - 1) = SubSeq(new, 1, n.lo - 1)
            /\ From(old, m.hi + 1) = From(new, n.hi + 1)
            /\ Len(oldLines) = Len(newLines)
            /\ \A k \in 1..Len(oldLines) :
                  \/ oldLines[k] = newLines[k]
                  \/ IsFieldLine(oldLines[k]) /\ IsFieldLine(newLines[k])
            /\ update_parse_watches(Block(new, n)) = update_parse_watches(Block(old, m))

(***************************************************************************)
(* Review: a marker is added or updated, then the audit runs               *)
(***************************************************************************)

\* the documents under review: without a marker, and with a marker that
\* has a second watches label
ReviewDocStates ==
    {Doc("# Guide\n"), Doc(DoubleLabelText)}

InitReview ==
    /\ docs \in {[d \in DocNames |-> IF d = "AGENTS.md" THEN a ELSE Absent] :
                    a \in ReviewDocStates}
    /\ dlog = <<>>
    /\ dops = 0
    /\ report = NoReport
    /\ tracked = DocTracked /\ rev = 0 /\ hcall = NoCall
    /\ HooksIdle /\ CodecIdle

NextReview == UpdateHash \/ AddMarker \/ Audit

SpecReview == InitReview /\ [][NextReview]_vars

\* the run before the last one was an update or an add_marker that ended
\* with status 0 and wrote the document it names, and the last run is an
\* audit that found the repository and, for that document, computed a hash
Reviewed(d) ==
    /\ Len(dlog) = 2
    /\ dlog[1].tool \in {"update", "bootstrap"}
    /\ dlog[1].exit = 0
    /\ dlog[1].doc = d
    /\ dlog[2].tool = "audit"
    /\ report.tool = "audit"
    /\ report.found
    /\ dlog[2].before[d] # dlog[1].before[d]
    /\ \A k \in 1..Len(report.rows) :
           report.rows[k].doc = d =>
               report.rows[k].verdict = "ERROR" \/ report.rows[k].current # "ERROR"

\* C19: when the update tool has succeeded on a document, or add_marker has
\* written a marker into it, an audit that runs next, over the same tracked
\* files, reports that document as OK: the hash stored is the hash the
\* audit computes from the marker
C19_ReviewClosesStaleness ==
    \A d \in DocNames :
        Reviewed(d) =>
            \E k \in 1..Len(report.rows) :
                /\ report.rows[k].doc = d
                /\ report.rows[k].verdict = "OK"
                /\ report.rows[k].stored = report.rows[k].current
=============================================================================
